---- MODULE Spec2Model ----
(***************************************************************************)
(* Checkpointed parallel cell-fill engine of src/aimlv2_json.py (and its   *)
(* CSV twin src/server/python/aimlv2_csv_optimized.py): the dataset file   *)
(* and the checkpoint file on disk, one process that loads them,           *)
(* reconciles the checkpoint, discovers the missing cells and fills them   *)
(* batch by batch through a thread pool, and the retry loop of one call to *)
(* the generation service.                                                 *)
(***************************************************************************)
EXTENDS Integers, Sequences, FiniteSets, TLC

(***************************************************************************)
(* Program constants.                                                      *)
(***************************************************************************)
MAX_RETRIES == 3
RETRY_DELAY == 2
MIN_LENGTH == 10
PRIMARY_MODEL == "gpt-4.1-nano"
FALLBACK_MODEL == "gpt-3.5-turbo"

(***************************************************************************)
(* Bounds of the model.                                                    *)
(***************************************************************************)
\* data rows of the dataset of the engine specifications
NRows == 2
\* longest checkpoint key (in characters) of the input ledgers
MaxKeyLen == 3
\* largest --batch-size and --workers an operator passes
MaxBatch == 2
MaxWorkers == 2
\* whitespace characters around a text
MaxPad == 1

(***************************************************************************)
(* Python strings.  A text is abstracted to the number of its              *)
(* non-whitespace characters (core) and of the whitespace characters       *)
(* around them (pad): len(), truthiness and strip() are functions of       *)
(* these.  None is a value of its own.                                     *)
(***************************************************************************)
Str(core, pad) == [core |-> core, pad |-> pad]
None == [none |-> TRUE]
EmptyStr == Str(0, 0)
Blanks == Str(0, 1)
len(s) == s.core + s.pad
strip(s) == Str(s.core, 0)
\* `if s:` for a str or None
Truthy(s) == s # None /\ len(s) > 0
\* `val is None or (isinstance(val, str) and not val.strip())`
IsBlankVal(val) == val = None \/ ~Truthy(strip(val))

(***************************************************************************)
(* Checkpoint keys are strings "{row}-{col}": sequences of characters.     *)
(***************************************************************************)
Digits == <<"0", "1", "2", "3", "4", "5", "6", "7", "8", "9">>
IsDigit(ch) == \E d \in 1..10 : Digits[d] = ch
DigitVal(ch) == (CHOOSE d \in 1..10 : Digits[d] = ch) - 1

RECURSIVE str_int(_)
\* str(n) of an integer
str_int(n) == IF n < 0 THEN <<"-">> \o str_int(-n)
              ELSE IF n < 10 THEN <<Digits[n + 1]>>
              ELSE str_int(n \div 10) \o <<Digits[(n % 10) + 1]>>

\* f"{row}-{col}"
KeyOf(row, col) == str_int(row) \o <<"-">> \o str_int(col)

RECURSIVE split_dash(_)
\* key.split('-')
split_dash(s) ==
    IF \A k \in 1..Len(s) : s[k] # "-" THEN <<s>>
    ELSE LET k == CHOOSE j \in 1..Len(s) :
                      s[j] = "-" /\ \A m \in 1..(j - 1) : s[m] # "-"
         IN  <<SubSeq(s, 1, k - 1)>> \o split_dash(SubSeq(s, k + 1, Len(s)))

\* int(seg) raises ValueError unless seg is a non-empty run of digits
IsInt(seg) == Len(seg) > 0 /\ \A k \in 1..Len(seg) : IsDigit(seg[k])

RECURSIVE int_str(_)
int_str(seg) == IF Len(seg) = 0 THEN 0
                ELSE 10 * int_str(SubSeq(seg, 1, Len(seg) - 1)) + DigitVal(seg[Len(seg)])

ValueError == <<>>
\* row_idx, col_idx = map(int, key.split('-'))
ParseKey(key) ==
    LET parts == split_dash(key)
    IN  IF Len(parts) = 2 /\ IsInt(parts[1]) /\ IsInt(parts[2])
        THEN <<int_str(parts[1]), int_str(parts[2])>>
        ELSE ValueError

(***************************************************************************)
(* The grid: headers is a list of distinct labels, a record is a dict from *)
(* labels to texts (a label may be missing from a record).                 *)
(***************************************************************************)
\* record.get(header, "")
Get(record, header) == IF header \in DOMAIN record THEN record[header] ELSE EmptyStr
\* records[idx] and headers[idx] with Python's 0-based index
At(list, idx) == list[idx + 1]
\* record[header] = text
DictSet(record, header, text) ==
    [h \in (DOMAIN record) \cup {header} |-> IF h = header THEN text ELSE record[h]]

(***************************************************************************)
(* reconcile_checkpoint: the keys it drops.                                *)
(***************************************************************************)
\* a reconcile that tests the cell with `not val` instead of `not val.strip()`
IsStale_no_strip(records, headers, key) ==
    LET rc == ParseKey(key)
    IN  /\ rc # ValueError
        /\ LET data_row_idx == rc[1] - 2
               col_idx == rc[2]
           IN  \/ data_row_idx < 0 \/ data_row_idx >= Len(records)
               \/ col_idx < 0 \/ col_idx >= Len(headers)
               \/ ~Truthy(Get(At(records, data_row_idx), At(headers, col_idx)))

IsStale(records, headers, key) ==
    LET rc == ParseKey(key)
    IN  /\ rc # ValueError
        /\ LET data_row_idx == rc[1] - 2
               col_idx == rc[2]
           IN  \/ data_row_idx < 0 \/ data_row_idx >= Len(records)
               \/ col_idx < 0 \/ col_idx >= Len(headers)
               \/ IsBlankVal(Get(At(records, data_row_idx), At(headers, col_idx)))

\* a reconcile that drops the out-of-range keys only and never looks at the cell
to_remove_range_only(records, headers, checkpoint) ==
    {key \in checkpoint :
        LET rc == ParseKey(key)
        IN  /\ rc # ValueError
            /\ \/ rc[1] - 2 < 0 \/ rc[1] - 2 >= Len(records)
               \/ rc[2] < 0 \/ rc[2] >= Len(headers)}

\* a reconcile that drops the keys of empty cells only and keeps the out-of-range ones
to_remove_in_range_only(records, headers, checkpoint) ==
    {key \in checkpoint :
        LET rc == ParseKey(key)
        IN  /\ rc # ValueError
            /\ rc[1] - 2 >= 0 /\ rc[1] - 2 < Len(records)
            /\ rc[2] >= 0 /\ rc[2] < Len(headers)
            /\ IsStale(records, headers, key)}

\* a reconcile that drops one stale key per application
to_remove_one_at_a_time(records, headers, checkpoint) ==
    LET stale == {key \in checkpoint : IsStale(records, headers, key)}
    IN  IF stale = {} THEN {} ELSE {CHOOSE key \in stale : TRUE}

to_remove(records, headers, checkpoint) ==
    {key \in checkpoint : IsStale(records, headers, key)}

(***************************************************************************)
(* find_missing_cells.                                                     *)
(***************************************************************************)
Task(row, col, term, section) == [row |-> row, col |-> col, term |-> term, section |-> section]

\* the (row_idx, col_idx) pairs in the order the two nested loops visit them
LoopOrder(headers, records) ==
    LET w == Len(headers) - 1
    IN  IF w <= 0 THEN <<>>
        ELSE [k \in 1..(Len(records) * w) |-> <<(k - 1) \div w, 1 + ((k - 1) % w)>>]

\* a reversal that loses the first element of the list
Reversed_drops_first(s) == [k \in 1..(Len(s) - 1) |-> s[Len(s) + 1 - k]]

Reversed(s) == [k \in 1..Len(s) |-> s[Len(s) + 1 - k]]

\* a scan that trusts the checkpoint alone and never looks at the cell
IsMissing_ledger_only(headers, records, checkpoint, row_idx, col_idx) ==
    LET record == At(records, row_idx)
        term == IF Len(headers) > 0 THEN Get(record, headers[1]) ELSE EmptyStr
        header == At(headers, col_idx)
    IN  /\ Truthy(term)
        /\ header # ""
        /\ KeyOf(row_idx + 2, col_idx) \notin checkpoint

\* a scan that builds the key from the 1-based row instead of the display row
IsMissing_key_row_off(headers, records, checkpoint, row_idx, col_idx) ==
    LET record == At(records, row_idx)
        term == IF Len(headers) > 0 THEN Get(record, headers[1]) ELSE EmptyStr
        header == At(headers, col_idx)
    IN  /\ Truthy(term)
        /\ header # ""
        /\ KeyOf(row_idx + 1, col_idx) \notin checkpoint
        /\ ~Truthy(Get(record, header))

IsMissing(headers, records, checkpoint, row_idx, col_idx) ==
    LET record == At(records, row_idx)
        term == IF Len(headers) > 0 THEN Get(record, headers[1]) ELSE EmptyStr
        header == At(headers, col_idx)
    IN  /\ Truthy(term)
        /\ header # ""
        /\ KeyOf(row_idx + 2, col_idx) \notin checkpoint
        /\ ~Truthy(Get(record, header))

\* a bottom-up scan that reverses the rows but keeps each row left to right
find_missing_cells_rows_reversed(headers, records, checkpoint, bottom_up) ==
    LET w == Len(headers) - 1
        n == Len(records)
        cells == IF w <= 0 THEN <<>>
                 ELSE [k \in 1..(n * w) |->
                          <<IF bottom_up THEN n - 1 - ((k - 1) \div w) ELSE (k - 1) \div w,
                            1 + ((k - 1) % w)>>]
        keep(rc) == IsMissing(headers, records, checkpoint, rc[1], rc[2])
        picked == SelectSeq(cells, keep)
    IN  [k \in 1..Len(picked) |->
            Task(picked[k][1] + 2, picked[k][2],
                 Get(At(records, picked[k][1]), headers[1]), At(headers, picked[k][2]))]

\* a scan that, bottom-up, returns the reversed list followed by the list
find_missing_cells_both_ways(headers, records, checkpoint, bottom_up) ==
    LET cells == LoopOrder(headers, records)
        keep(rc) == IsMissing(headers, records, checkpoint, rc[1], rc[2])
        picked == SelectSeq(cells, keep)
        tasks == [k \in 1..Len(picked) |->
                     Task(picked[k][1] + 2, picked[k][2],
                          Get(At(records, picked[k][1]), headers[1]),
                          At(headers, picked[k][2]))]
    IN  IF bottom_up THEN Reversed(tasks) \o tasks ELSE tasks

find_missing_cells(headers, records, checkpoint, bottom_up) ==
    LET cells == LoopOrder(headers, records)
        keep(rc) == IsMissing(headers, records, checkpoint, rc[1], rc[2])
        picked == SelectSeq(cells, keep)
        tasks == [k \in 1..Len(picked) |->
                     Task(picked[k][1] + 2, picked[k][2],
                          Get(At(records, picked[k][1]), headers[1]),
                          At(headers, picked[k][2]))]
    IN  IF bottom_up THEN Reversed(tasks) ELSE tasks

(***************************************************************************)
(* update_json_data and update_checkpoint, applied to the results of one   *)
(* batch.  A result is <<row, col, text>> with text a str or None.         *)
(***************************************************************************)
\* list[idx] with Python's index: a negative idx counts from the end
PyAt(list, idx) == IF idx < 0 THEN list[Len(list) + idx + 1] ELSE list[idx + 1]
\* list[idx] raises IndexError
IndexError(list, idx) == idx < -Len(list) \/ idx >= Len(list)

\* the result is written: its text is truthy, its row and col pass the test
\* of line 211 and headers[col] does not raise (line 212; the IndexError of
\* a col below -len(headers) is caught and logged, lines 215-216)
writes(records, headers, res) ==
    LET row == res[1]
        col == res[2]
        text == res[3]
        data_row_idx == row - 2
    IN  /\ Truthy(text)
        /\ data_row_idx >= 0 /\ data_row_idx < Len(records) /\ col < Len(headers)
        /\ ~IndexError(headers, col)

\* the body of update_json_data's loop for one result
\* an update that takes the display row for the 1-based row
apply_result_row_minus_1(records, headers, res) ==
    LET row == res[1]
        col == res[2]
        text == res[3]
        data_row_idx == row - 1
    IN  IF Truthy(text) /\ data_row_idx >= 0 /\ data_row_idx < Len(records)
           /\ col < Len(headers) /\ ~IndexError(headers, col)
        THEN [records EXCEPT ![data_row_idx + 1] = DictSet(@, PyAt(headers, col), text)]
        ELSE records

\* an update that writes one column to the left of the result's column
apply_result_col_minus_1(records, headers, res) ==
    LET row == res[1]
        col == res[2]
        text == res[3]
        data_row_idx == row - 2
    IN  IF writes(records, headers, res)
        THEN [records EXCEPT ![data_row_idx + 1] = DictSet(@, PyAt(headers, col - 1), text)]
        ELSE records

apply_result(records, headers, res) ==
    LET row == res[1]
        col == res[2]
        text == res[3]
        data_row_idx == row - 2
    IN  IF writes(records, headers, res)
        THEN [records EXCEPT ![data_row_idx + 1] = DictSet(@, PyAt(headers, col), text)]
        ELSE records

\* the number update_json_data returns: the results it wrote
update_json_count(records, headers, results) ==
    Cardinality({k \in 1..Len(results) : writes(records, headers, results[k])})

RECURSIVE update_json_data(_, _, _)
update_json_data(records, headers, results) ==
    IF results = <<>> THEN records
    ELSE update_json_data(apply_result(records, headers, Head(results)), headers, Tail(results))

\* the keys update_checkpoint sets to True
\* an update_checkpoint that marks every result, the failed ones too
marks_all(results) == {KeyOf(results[k][1], results[k][2]) : k \in 1..Len(results)}

\* an update_checkpoint that writes the key as "{col}-{row}"
marks_col_row(results) == {KeyOf(results[k][2], results[k][1]) : k \in {j \in 1..Len(results) : Truthy(results[j][3])}}

\* an update_checkpoint that marks every result but an empty text (None too)
marks_none_too(results) == {KeyOf(results[k][1], results[k][2]) : k \in {j \in 1..Len(results) : results[j][3] # EmptyStr}}

\* an update_checkpoint that marks every result that is not None ("" too)
marks_not_none(results) == {KeyOf(results[k][1], results[k][2]) : k \in {j \in 1..Len(results) : results[j][3] # None}}

marks(results) == {KeyOf(results[k][1], results[k][2]) : k \in {j \in 1..Len(results) : Truthy(results[j][3])}}

(***************************************************************************)
(* call_openai_api.  A reply of the service is an exception (a timeout, a  *)
(* rate limit) or a message content.                                       *)
(***************************************************************************)
Raises == [exc |-> TRUE, content |-> EmptyStr]
Replies(content) == [exc |-> FALSE, content |-> content]

\* a policy that moves to the fallback model one attempt early
model_of_fallback_early(attempt) ==
    IF attempt < MAX_RETRIES - 1 THEN PRIMARY_MODEL ELSE FALLBACK_MODEL

model_of(attempt) == IF attempt < MAX_RETRIES THEN PRIMARY_MODEL ELSE FALLBACK_MODEL

\* one iteration of the loop `for attempt in range(MAX_RETRIES + 1)`:
\* ret says whether the call returns, value what it returns, sleep the
\* delays it sleeps before the next iteration
\* an exception that leaves call_openai_api
Propagates == [exception |-> TRUE]

\* a retry loop that accepts a text of MIN_LENGTH characters
attempt_step_min_inclusive(attempt, reply) ==
    IF ~reply.exc
    THEN LET content == strip(reply.content)
         IN  IF Truthy(content) /\ len(content) >= MIN_LENGTH
             THEN [ret |-> TRUE, value |-> content, sleep |-> <<>>]
             ELSE IF attempt < MAX_RETRIES
             THEN [ret |-> FALSE, value |-> None, sleep |-> <<>>]
             ELSE [ret |-> TRUE, value |-> content, sleep |-> <<>>]
    ELSE IF attempt < MAX_RETRIES
         THEN [ret |-> FALSE, value |-> None, sleep |-> <<RETRY_DELAY * (attempt + 1)>>]
         ELSE [ret |-> TRUE, value |-> None, sleep |-> <<>>]

\* a retry loop that raises the exception of the last attempt again
attempt_step_reraise(attempt, reply) ==
    IF ~reply.exc
    THEN LET content == strip(reply.content)
         IN  IF Truthy(content) /\ len(content) > MIN_LENGTH
             THEN [ret |-> TRUE, value |-> content, sleep |-> <<>>]
             ELSE IF attempt < MAX_RETRIES
             THEN [ret |-> FALSE, value |-> None, sleep |-> <<>>]
             ELSE [ret |-> TRUE, value |-> content, sleep |-> <<>>]
    ELSE IF attempt < MAX_RETRIES
         THEN [ret |-> FALSE, value |-> None, sleep |-> <<RETRY_DELAY * (attempt + 1)>>]
         ELSE [ret |-> TRUE, value |-> Propagates, sleep |-> <<>>]

\* a retry loop that sleeps RETRY_DELAY before every retry
attempt_step_fixed_delay(attempt, reply) ==
    IF ~reply.exc
    THEN LET content == strip(reply.content)
         IN  IF Truthy(content) /\ len(content) > MIN_LENGTH
             THEN [ret |-> TRUE, value |-> content, sleep |-> <<>>]
             ELSE IF attempt < MAX_RETRIES
             THEN [ret |-> FALSE, value |-> None, sleep |-> <<>>]
             ELSE [ret |-> TRUE, value |-> content, sleep |-> <<>>]
    ELSE IF attempt < MAX_RETRIES
         THEN [ret |-> FALSE, value |-> None, sleep |-> <<RETRY_DELAY>>]
         ELSE [ret |-> TRUE, value |-> None, sleep |-> <<>>]

\* a retry loop that, after the fallback model failed, goes round once more
attempt_step_extra_try(attempt, reply) ==
    IF ~reply.exc
    THEN LET content == strip(reply.content)
         IN  IF Truthy(content) /\ len(content) > MIN_LENGTH
             THEN [ret |-> TRUE, value |-> content, sleep |-> <<>>]
             ELSE IF attempt < MAX_RETRIES + 1
             THEN [ret |-> FALSE, value |-> None, sleep |-> <<>>]
             ELSE [ret |-> TRUE, value |-> content, sleep |-> <<>>]
    ELSE IF attempt < MAX_RETRIES + 1
         THEN [ret |-> FALSE, value |-> None, sleep |-> <<RETRY_DELAY * (attempt + 1)>>]
         ELSE [ret |-> TRUE, value |-> None, sleep |-> <<>>]

attempt_step(attempt, reply) ==
    IF ~reply.exc
    THEN LET content == strip(reply.content)
         IN  IF Truthy(content) /\ len(content) > MIN_LENGTH
             THEN [ret |-> TRUE, value |-> content, sleep |-> <<>>]
             ELSE IF attempt < MAX_RETRIES
             THEN [ret |-> FALSE, value |-> None, sleep |-> <<>>]
             ELSE [ret |-> TRUE, value |-> content, sleep |-> <<>>]
    ELSE IF attempt < MAX_RETRIES
         THEN [ret |-> FALSE, value |-> None, sleep |-> <<RETRY_DELAY * (attempt + 1)>>]
         ELSE [ret |-> TRUE, value |-> None, sleep |-> <<>>]

RECURSIVE call_from(_, _)
call_from(attempt, replies) ==
    LET st == attempt_step(attempt, replies[attempt + 1])
    IN  IF st.ret THEN st.value ELSE call_from(attempt + 1, replies)

\* what one call returns when the service answers its requests with replies
call_openai_api(replies) == call_from(0, replies)

(***************************************************************************)
(* State.                                                                  *)
(***************************************************************************)
VARIABLES
    diskKeys,     \* dataset file: the keys of its first record, in file order
    diskData,     \* dataset file: its list of records
    diskCp,       \* checkpoint file: the keys it maps to true
    cpFile,       \* checkpoint file: "absent", or what it holds: "dict" (a JSON
                  \* object), "badjson" (not JSON), "nondict" (JSON, but not an
                  \* object), "badbytes" (bytes that do not decode as text)
    dataExists,   \* the dataset file exists
    backups,      \* number of checkpoint.json.corrupted.* files
    pc,           \* where the process is; "idle" when no process runs
    bottom_up,    \* --mode bottomup
    BATCH_SIZE,   \* --batch-size
    MAX_WORKERS,  \* --workers
    headers,      \* in memory, as are the next seven
    records,
    checkpoint,
    tasks,
    i,            \* the batch loop's index
    queue,        \* thread pool: the submitted calls no thread has taken yet
    running,      \* thread pool: the calls in flight
    results,
    attempt,      \* call_openai_api of the single-call specification: loop index
    requests,     \* ... the model of each request it made
    sleeps,       \* ... the delays it slept
    returned,     \* ... <<value>> once it has returned
    \* history, not program state
    replies,      \* the replies the service gave to the single call
    before,       \* the ledger reconcile_checkpoint of this process was given
    committed,    \* cells generated by a batch whose dataset save completed
    lostBatch,    \* cells of the batch in flight when the process was last killed
    lostMarks,    \* keys that kill left saved without their values; not reconciled yet
    dirty,        \* a batch's marks are saved; no dataset save or reconcile since
    reconciled,   \* reconcile_checkpoint has completed at least once
    failed,       \* a call of this run returned no text
    raised,       \* cells of the current batch whose future raised
    failedCells,  \* cells whose call failed since the first batch of the latest run
    prevClean,    \* the previous run ran to its end and none of its calls failed
    updated,      \* what update_json_data returned for the batch
    other         \* a second instance of the job on the same two files: its
                  \* whole process (position, memory) as one record

fileVars == <<diskKeys, diskData, diskCp>>
envVars == <<cpFile, dataExists, backups>>
argVars == <<bottom_up, BATCH_SIZE, MAX_WORKERS>>
memVars == <<headers, records, checkpoint, tasks, i, queue, running, results>>
callVars == <<attempt, requests, sleeps, returned, replies>>
histVars == <<before, committed, lostBatch, lostMarks, dirty, reconciled, failed, raised, failedCells,
              prevClean>>
vars == <<fileVars, envVars, pc, argVars, memVars, updated, callVars, histVars, other>>

Range(s) == {s[k] : k \in 1..Len(s)}
RECURSIVE SetsUpTo(_, _)
\* the subsets of S with at most n elements
SetsUpTo(S, n) == IF n = 0 THEN {{}}
                  ELSE LET less == SetsUpTo(S, n - 1)
                       IN  less \cup {m \cup {k} : m \in less, k \in S}
Min(a, b) == IF a < b THEN a ELSE b
Cell(t) == <<t.row, t.col>>

\* load_json_data
load_headers == IF diskData = <<>> THEN <<>> ELSE diskKeys

NoCall == /\ attempt = 0 /\ requests = <<>> /\ sleeps = <<>>
          /\ returned = <<>> /\ replies = <<>>
NoProcess == /\ pc = "idle" /\ before = {} /\ bottom_up = FALSE /\ BATCH_SIZE = 1 /\ MAX_WORKERS = 1
             /\ headers = <<>> /\ records = <<>> /\ checkpoint = {} /\ tasks = <<>>
             /\ i = 0 /\ queue = <<>> /\ running = {} /\ results = <<>> /\ updated = 0
NoHistory == /\ committed = {} /\ lostBatch = {} /\ lostMarks = {} /\ dirty = FALSE
             /\ reconciled = FALSE /\ failed = FALSE /\ raised = {} /\ prevClean = FALSE
             /\ failedCells = {}
\* no second instance runs
NoOther == [pc |-> "none"]
\* the dataset file exists and the checkpoint file holds a JSON object; one
\* instance of the job
GoodFiles == cpFile = "dict" /\ dataExists = TRUE /\ backups = 0 /\ other = NoOther

(***************************************************************************)
(* One run of batch_process_parallel, step by step.                        *)
(***************************************************************************)
\* `if args.reset_checkpoint and Path(CHECKPOINT_FILE).exists(): unlink()`
\* a script that parses --reset-checkpoint and never unlinks the file
reset_checkpoint_ignored(reset, file) == file

reset_checkpoint(reset, file) == IF reset /\ file # "absent" THEN "absent" ELSE file

\* load_checkpoint() on a checkpoint file `file` that maps keys to true when
\* it is a JSON object: raises says whether an exception leaves it, renamed
\* whether it renamed the file to a backup, isdict whether the value it
\* returns is a dict, value the keys of that dict
load_checkpoint(file, keys) ==
    CASE file = "absent"   -> [raises |-> FALSE, renamed |-> FALSE, isdict |-> TRUE, value |-> {}]
      [] file = "dict"     -> [raises |-> FALSE, renamed |-> FALSE, isdict |-> TRUE, value |-> keys]
      [] file = "badjson"  -> [raises |-> FALSE, renamed |-> TRUE, isdict |-> TRUE, value |-> {}]
      [] file = "nondict"  -> [raises |-> FALSE, renamed |-> FALSE, isdict |-> FALSE, value |-> {}]
      [] file = "badbytes" -> [raises |-> TRUE, renamed |-> FALSE, isdict |-> TRUE, value |-> {}]

\* the exit status of the script once batch_process_parallel has returned
\* ("done"), raised an Exception ("fatal") or raised KeyboardInterrupt
\* ("interrupted"): __main__ catches both and runs to its end
exit_status(p) ==
    CASE p = "done" -> 0
      [] p = "fatal" -> 0
      [] p = "interrupted" -> 0

\* __main__ parses the options and, with --reset-checkpoint, unlinks the
\* checkpoint file; batch_process_parallel then returns when there is no
\* dataset file and loads both files otherwise
StartRun(reset, mode, batch_size, workers) ==
    /\ pc = "idle"
    /\ bottom_up' = mode
    /\ BATCH_SIZE' = batch_size
    /\ MAX_WORKERS' = workers
    /\ diskCp' = IF reset_checkpoint(reset, cpFile) = "absent" THEN {} ELSE diskCp
    /\ failed' = FALSE
    /\ lostMarks' = IF reset THEN {} ELSE lostMarks
    /\ LET file == reset_checkpoint(reset, cpFile)
           cp == load_checkpoint(file, diskCp')
       IN  IF ~dataExists
           THEN /\ cpFile' = file
                /\ pc' = "done"
                /\ UNCHANGED <<headers, records, checkpoint, backups>>
           ELSE /\ headers' = load_headers
                /\ records' = diskData
                /\ checkpoint' = cp.value
                /\ cpFile' = IF cp.renamed THEN "absent" ELSE file
                /\ backups' = IF cp.renamed THEN backups + 1 ELSE backups
                /\ pc' = IF cp.raises THEN "fatal" ELSE "loaded"
    /\ UNCHANGED <<diskKeys, diskData, dataExists, tasks, i, queue, running, results,
                   callVars, other, updated, committed, lostBatch, dirty, reconciled, raised,
                   failedCells, prevClean, before>>

\* a reconcile that drops the stale keys in memory and never saves the file
ReconcileStep_no_save(from, to) ==
    /\ pc = from
    /\ load_checkpoint(cpFile, diskCp).isdict
    /\ LET gone == to_remove(records, headers, checkpoint)
       IN  /\ checkpoint' = checkpoint \ gone
           /\ UNCHANGED <<diskCp, cpFile>>
    /\ pc' = to
    /\ before' = checkpoint
    /\ dirty' = FALSE
    /\ reconciled' = TRUE
    /\ lostMarks' = {}
    /\ UNCHANGED <<diskKeys, diskData, dataExists, backups, argVars, headers, records,
                   tasks, i, queue, running, results, callVars, other, updated, committed, lostBatch,
                   failed, raised, failedCells, prevClean>>

\* a reconcile that saves the checkpoint file whether or not it removed a key
ReconcileStep_always_saves(from, to) ==
    /\ pc = from
    /\ load_checkpoint(cpFile, diskCp).isdict
    /\ LET gone == to_remove(records, headers, checkpoint)
       IN  /\ checkpoint' = checkpoint \ gone
           /\ diskCp' = checkpoint'
           /\ cpFile' = "dict"
    /\ pc' = to
    /\ before' = checkpoint
    /\ dirty' = FALSE
    /\ reconciled' = TRUE
    /\ lostMarks' = {}
    /\ UNCHANGED <<diskKeys, diskData, dataExists, backups, argVars, headers, records,
                   tasks, i, queue, running, results, callVars, other, updated, committed, lostBatch,
                   failed, raised, failedCells, prevClean>>

\* reconcile_checkpoint(records, headers, checkpoint), checkpoint a dict
ReconcileStep(from, to) ==
    /\ pc = from
    /\ load_checkpoint(cpFile, diskCp).isdict
    /\ LET gone == to_remove(records, headers, checkpoint)
       IN  /\ checkpoint' = checkpoint \ gone
           /\ diskCp' = IF gone # {} THEN checkpoint' ELSE diskCp
           /\ cpFile' = IF gone # {} THEN "dict" ELSE cpFile
    /\ pc' = to
    /\ before' = checkpoint
    /\ dirty' = FALSE
    /\ reconciled' = TRUE
    /\ lostMarks' = {}
    /\ UNCHANGED <<diskKeys, diskData, dataExists, backups, argVars, headers, records,
                   tasks, i, queue, running, results, callVars, other, updated, committed, lostBatch,
                   failed, raised, failedCells, prevClean>>

Reconcile == ReconcileStep("loaded", "reconciled")

\* reconcile_checkpoint given a checkpoint that is no dict: `checkpoint.keys()`
\* raises AttributeError, which leaves batch_process_parallel
ReconcileRaises ==
    /\ pc = "loaded"
    /\ ~load_checkpoint(cpFile, diskCp).isdict
    /\ pc' = "fatal"
    /\ UNCHANGED <<fileVars, envVars, argVars, memVars, callVars, other, updated, histVars>>

\* tasks = find_missing_cells(headers, records, checkpoint, bottom_up)
DiscoverStep(from, mode, toNone, toSome) ==
    /\ pc \in from
    /\ bottom_up' = mode
    /\ tasks' = find_missing_cells(headers, records, checkpoint, mode)
    /\ pc' = IF Len(tasks') = 0 THEN toNone ELSE toSome
    /\ i' = 0
    /\ UNCHANGED <<fileVars, envVars, BATCH_SIZE, MAX_WORKERS, headers, records,
                   checkpoint, queue, running, results, callVars, other, updated, histVars>>

\* ... and batch_process_parallel returns when there is no task
Discover == DiscoverStep({"reconciled"}, bottom_up, "done", "loop")

\* a loop that submits every remaining task at once
Dispatch_whole_list ==
    /\ pc = "loop"
    /\ i < Len(tasks)
    /\ queue' = SubSeq(tasks, i + 1, Len(tasks))
    /\ running' = {}
    /\ results' = <<>>
    /\ updated' = 0
    /\ pc' = "pool"
    /\ lostBatch' = {}
    /\ lostMarks' = {}
    /\ raised' = {}
    /\ failedCells' = IF i = 0 THEN {} ELSE failedCells
    /\ UNCHANGED <<fileVars, envVars, argVars, headers, records, checkpoint, tasks, i,
                   callVars, other, committed, dirty, reconciled, failed, prevClean,
                   before>>

\* batch = tasks[i : i + BATCH_SIZE], every call of it submitted to the pool
Dispatch ==
    /\ pc = "loop"
    /\ i < Len(tasks)
    /\ queue' = SubSeq(tasks, i + 1, Min(i + BATCH_SIZE, Len(tasks)))
    /\ running' = {}
    /\ results' = <<>>
    /\ updated' = 0
    /\ pc' = "pool"
    /\ lostBatch' = {}
    /\ lostMarks' = {}
    /\ raised' = {}
    /\ failedCells' = IF i = 0 THEN {} ELSE failedCells
    /\ UNCHANGED <<fileVars, envVars, argVars, headers, records, checkpoint, tasks, i,
                   callVars, other, committed, dirty, reconciled, failed, prevClean,
                   before>>

\* a pool that starts a thread for every submitted call, whatever max_workers
WorkerStart_no_cap ==
    /\ pc = "pool"
    /\ queue # <<>>
    /\ running' = running \cup {Head(queue)}
    /\ queue' = Tail(queue)
    /\ UNCHANGED <<fileVars, envVars, pc, argVars, headers, records, checkpoint, tasks,
                   i, results, callVars, other, updated, histVars>>

\* a free pool thread takes the next submitted call: its requests are in flight
WorkerStart ==
    /\ pc = "pool"
    /\ queue # <<>>
    /\ Cardinality(running) < MAX_WORKERS
    /\ running' = running \cup {Head(queue)}
    /\ queue' = Tail(queue)
    /\ UNCHANGED <<fileVars, envVars, pc, argVars, headers, records, checkpoint, tasks,
                   i, results, callVars, other, updated, histVars>>

\* a call returns text and as_completed hands it to the main thread
WorkerFinish(t, text) ==
    /\ pc = "pool"
    /\ t \in running
    /\ running' = running \ {t}
    /\ results' = Append(results, <<t.row, t.col, text>>)
    /\ failed' = (failed \/ ~Truthy(text))
    /\ failedCells' = IF Truthy(text) THEN failedCells ELSE failedCells \cup {Cell(t)}
    /\ UNCHANGED <<fileVars, envVars, pc, argVars, headers, records, checkpoint, tasks,
                   i, queue, callVars, other, updated, committed, lostBatch, lostMarks, dirty, reconciled, raised,
                   prevClean, before>>

\* a main thread that lets the exception of fut.result() go: the `with` block
\* waits for the other calls and batch_process_parallel is left
WorkerRaises_propagates(t) ==
    /\ pc = "pool"
    /\ t \in running
    /\ running' = {}
    /\ queue' = <<>>
    /\ pc' = "fatal"
    /\ failed' = TRUE
    /\ raised' = raised \cup {Cell(t)}
    /\ failedCells' = failedCells \cup {Cell(t)}
    /\ UNCHANGED <<fileVars, envVars, argVars, headers, records, checkpoint, tasks, i,
                   results, callVars, other, updated, committed, lostBatch, lostMarks, dirty, reconciled,
                   prevClean, before>>

\* a call raises: fut.result() raises in the main thread, which logs the
\* error and records None for the cell
WorkerRaises(t) ==
    /\ pc = "pool"
    /\ t \in running
    /\ running' = running \ {t}
    /\ results' = Append(results, <<t.row, t.col, None>>)
    /\ failed' = TRUE
    /\ raised' = raised \cup {Cell(t)}
    /\ failedCells' = failedCells \cup {Cell(t)}
    /\ UNCHANGED <<fileVars, envVars, pc, argVars, headers, records, checkpoint, tasks,
                   i, queue, callVars, other, updated, committed, lostBatch, lostMarks, dirty, reconciled,
                   prevClean, before>>

\* an engine that applies what it has as soon as no call is running, with
\* calls still waiting for a thread
ApplyBatch_early ==
    /\ pc = "pool"
    /\ running = {}
    /\ records' = update_json_data(records, headers, results)
    /\ updated' = update_json_count(records, headers, results)
    /\ checkpoint' = checkpoint \cup marks(results)
    /\ diskCp' = IF marks(results) # {} THEN checkpoint' ELSE diskCp
    /\ cpFile' = IF marks(results) # {} THEN "dict" ELSE cpFile
    /\ dirty' = (dirty \/ marks(results) # {})
    /\ pc' = "applied"
    /\ UNCHANGED <<diskKeys, diskData, dataExists, backups, argVars, headers, tasks, i,
                   queue, running, results, callVars, other, committed, lostBatch, lostMarks, reconciled,
                   failed, raised, failedCells, prevClean, before>>

\* an update_checkpoint that sets the keys and never saves the file
ApplyBatch_no_save ==
    /\ pc = "pool"
    /\ queue = <<>>
    /\ running = {}
    /\ records' = update_json_data(records, headers, results)
    /\ updated' = update_json_count(records, headers, results)
    /\ checkpoint' = checkpoint \cup marks(results)
    /\ dirty' = (dirty \/ marks(results) # {})
    /\ pc' = "applied"
    /\ UNCHANGED <<fileVars, envVars, argVars, headers, tasks, i, queue, running,
                   results, callVars, other, committed, lostBatch, lostMarks, reconciled, failed,
                   raised, failedCells, prevClean, before>>

\* update_json_data(records, headers, results); update_checkpoint(checkpoint, results)
ApplyBatch ==
    /\ pc = "pool"
    /\ queue = <<>>
    /\ running = {}
    /\ records' = update_json_data(records, headers, results)
    /\ updated' = update_json_count(records, headers, results)
    /\ checkpoint' = checkpoint \cup marks(results)
    /\ diskCp' = IF marks(results) # {} THEN checkpoint' ELSE diskCp
    /\ cpFile' = IF marks(results) # {} THEN "dict" ELSE cpFile
    /\ dirty' = (dirty \/ marks(results) # {})
    /\ pc' = "applied"
    /\ UNCHANGED <<diskKeys, diskData, dataExists, backups, argVars, headers, tasks, i,
                   queue, running, results, callVars, other, committed, lostBatch, lostMarks, reconciled,
                   failed, raised, failedCells, prevClean, before>>

\* a loop that goes on to the next batch without saving the dataset
SaveData_skipped ==
    /\ pc = "applied"
    /\ i' = i + BATCH_SIZE
    /\ pc' = "loop"
    /\ dirty' = FALSE
    /\ committed' = committed \cup
           {<<results[k][1], results[k][2]>> : k \in {j \in 1..Len(results) : Truthy(results[j][3])}}
    /\ UNCHANGED <<fileVars, envVars, argVars, headers, records, checkpoint, tasks,
                   queue, running, results, callVars, other, updated, lostBatch, lostMarks, reconciled, failed,
                   raised, failedCells, prevClean, before>>

\* save_json_data(JSON_FILE, records), then the next iteration of the loop
SaveData ==
    /\ pc = "applied"
    /\ diskData' = records
    /\ i' = i + BATCH_SIZE
    /\ pc' = "loop"
    /\ dirty' = FALSE
    /\ committed' = committed \cup
           {<<results[k][1], results[k][2]>> : k \in {j \in 1..Len(results) : Truthy(results[j][3])}}
    /\ UNCHANGED <<diskKeys, diskCp, envVars, argVars, headers, records, checkpoint,
                   tasks, queue, running, results, callVars, other, updated, lostBatch, lostMarks, reconciled,
                   failed, raised, failedCells, prevClean, before>>

\* the loop is over
Finish ==
    /\ pc = "loop"
    /\ i >= Len(tasks)
    /\ pc' = "done"
    /\ UNCHANGED <<fileVars, envVars, argVars, memVars, callVars, other, updated, histVars>>

\* KeyboardInterrupt reaches the main thread while it waits in as_completed
\* or runs lines 278-280: leaving the `with` block waits for every submitted
\* call, whose result nobody collects, and the exception leaves
\* batch_process_parallel for the handler of __main__
Interrupt ==
    /\ pc \in {"pool", "applied"}
    /\ queue' = <<>>
    /\ running' = {}
    /\ pc' = "interrupted"
    /\ UNCHANGED <<fileVars, envVars, argVars, headers, records, checkpoint, tasks, i,
                   results, callVars, other, updated, histVars>>

Forget ==
    /\ pc' = "idle"
    /\ bottom_up' = FALSE /\ BATCH_SIZE' = 1 /\ MAX_WORKERS' = 1
    /\ headers' = <<>> /\ records' = <<>> /\ checkpoint' = {} /\ tasks' = <<>>
    /\ i' = 0 /\ queue' = <<>> /\ running' = {} /\ results' = <<>>
    /\ updated' = 0
    /\ before' = {}
    /\ raised' = {}

\* the process exits normally
Exit ==
    /\ pc = "done"
    /\ Forget
    /\ prevClean' = ~failed
    /\ UNCHANGED <<fileVars, envVars, callVars, other, committed, lostBatch, lostMarks, dirty,
                   reconciled, failed, failedCells>>

\* the process ends after __main__ has logged the exception
Abort ==
    /\ pc \in {"fatal", "interrupted"}
    /\ Forget
    /\ prevClean' = FALSE
    /\ UNCHANGED <<fileVars, envVars, callVars, other, committed, lostBatch, lostMarks, dirty,
                   reconciled, failed, failedCells>>

\* the process is killed: its memory is gone, the files stay as they are
Kill ==
    /\ pc \notin {"idle", "done", "fatal", "interrupted"}
    /\ Forget
    /\ lostBatch' = IF pc \in {"pool", "applied"}
                    THEN {Cell(tasks[k]) : k \in (i + 1)..Min(i + BATCH_SIZE, Len(tasks))}
                    ELSE lostBatch
    /\ lostMarks' = IF pc = "applied" THEN marks(results)
                    ELSE IF pc = "pool" THEN {} ELSE lostMarks
    /\ prevClean' = FALSE
    /\ UNCHANGED <<fileVars, envVars, callVars, other, committed, dirty, reconciled,
                   failed, failedCells>>

(***************************************************************************)
(* The replies of the service and the texts a call can return.             *)
(***************************************************************************)
\* the longest reply is this much longer than MIN_LENGTH
MaxOver == 1
ReplyCores == {0, 1} \cup (MIN_LENGTH..(MIN_LENGTH + MaxOver))
ReplySet == {Raises} \cup {Replies(Str(c, p)) : c \in ReplyCores, p \in 0..MaxPad}
\* in the engine the service answers every request of one call alike: with
\* an exception, a blank text, a text of MIN_LENGTH or the longest text
EngineReplies ==
    {Raises} \cup {Replies(Str(c, MaxPad)) : c \in {0, MIN_LENGTH, MIN_LENGTH + MaxOver}}
CallResults == {call_openai_api([k \in 1..(MAX_RETRIES + 1) |-> r]) : r \in EngineReplies}

(***************************************************************************)
(* The engine: runs of the job over one dataset, killed and restarted at   *)
(* any point.  Spec runs it without --reset-checkpoint, SpecReset with.    *)
(***************************************************************************)
Filled == Str(1, 0)
\* a generated text
NewText == Str(MIN_LENGTH + 1, 0)
EngineKeys == <<"Term", "S1", "S2">>
EngineCells == {<<r, c>> : r \in 2..(NRows + 1), c \in 1..2}
\* the largest number of marks in the checkpoint file at the start
MaxInitMarks == 1

EngineInit ==
    /\ diskKeys = EngineKeys
    /\ diskData \in [1..NRows -> [{"Term", "S1", "S2"} -> {EmptyStr, Filled}]]
    /\ \A r \in 1..NRows : diskData[r]["Term"] = Filled
    /\ diskCp \in SetsUpTo({KeyOf(c[1], c[2]) : c \in EngineCells}, MaxInitMarks)
    /\ NoProcess
    /\ NoCall
    /\ NoHistory
    /\ GoodFiles

RunSteps ==
    \/ Reconcile
    \/ Discover
    \/ Dispatch
    \/ WorkerStart
    \/ \E t \in running, text \in CallResults : WorkerFinish(t, text)
    \/ ApplyBatch
    \/ SaveData
    \/ Finish

EngineNext ==
    \/ \E mode \in BOOLEAN, b \in 1..MaxBatch, w \in 1..MaxWorkers :
           StartRun(FALSE, mode, b, w)
    \/ RunSteps
    \/ Exit
    \/ Kill

Spec == EngineInit /\ [][EngineNext]_vars

ResetNext ==
    \/ \E reset \in BOOLEAN, mode \in BOOLEAN, b \in 1..MaxBatch, w \in 1..MaxWorkers :
           StartRun(reset, mode, b, w)
    \/ RunSteps
    \/ Exit
    \/ Kill

SpecReset == EngineInit /\ [][ResetNext]_vars

(***************************************************************************)
(* The engine over datasets with nothing or little to do: rows without an  *)
(* entity name, which discovery skips, and a checkpoint file that may hold *)
(* a key beyond the last row.                                              *)
(***************************************************************************)
StartKeys == {KeyOf(c[1], c[2]) : c \in EngineCells} \cup {KeyOf(NRows + 2, 1)}

EmptyStartInit ==
    /\ diskKeys = EngineKeys
    /\ diskData \in [1..NRows -> [{"Term", "S1", "S2"} -> {EmptyStr, Filled}]]
    /\ diskCp \in SetsUpTo(StartKeys, MaxInitMarks)
    /\ NoProcess
    /\ NoCall
    /\ NoHistory
    /\ GoodFiles

SpecEmptyStart == EmptyStartInit /\ [][ResetNext]_vars

(***************************************************************************)
(* The engine with calls that raise and with an operator who interrupts    *)
(* the run (Ctrl-C); no kill.                                              *)
(***************************************************************************)
FaultNext ==
    \/ \E mode \in BOOLEAN, b \in 1..MaxBatch, w \in 1..MaxWorkers :
           StartRun(FALSE, mode, b, w)
    \/ RunSteps
    \/ \E t \in running : WorkerRaises(t)
    \/ Interrupt
    \/ Exit
    \/ Abort

SpecFault == EngineInit /\ [][FaultNext]_vars

(***************************************************************************)
(* The start of a run, up to the task list, over every state of the two    *)
(* files: the dataset file missing, the checkpoint file missing or holding *)
(* any kind of content.                                                    *)
(***************************************************************************)
CheckpointFiles == {"absent", "dict", "badjson", "nondict", "badbytes"}

StartupInit ==
    /\ dataExists \in BOOLEAN
    /\ diskKeys = (IF dataExists THEN EngineKeys ELSE <<>>)
    /\ diskData \in (IF dataExists
                     THEN {d \in [1..NRows -> [{"Term", "S1", "S2"} -> {EmptyStr, Filled}]] :
                              \A r \in 1..NRows : d[r]["Term"] = Filled}
                     ELSE {<<>>})
    /\ cpFile \in CheckpointFiles
    /\ diskCp \in (IF cpFile = "dict"
                   THEN SetsUpTo({KeyOf(c[1], c[2]) : c \in EngineCells}, MaxInitMarks)
                   ELSE {{}})
    /\ backups = 0
    /\ other = NoOther
    /\ NoProcess
    /\ NoCall
    /\ NoHistory

StartupNext ==
    \/ \E reset \in BOOLEAN, mode \in BOOLEAN, b \in 1..MaxBatch, w \in 1..MaxWorkers :
           StartRun(reset, mode, b, w)
    \/ Reconcile
    \/ ReconcileRaises
    \/ Discover
    \/ Exit
    \/ Abort

SpecStartup == StartupInit /\ [][StartupNext]_vars

(***************************************************************************)
(* The start of runs that are all given --reset-checkpoint.                *)
(***************************************************************************)
ResetStartNext ==
    \/ \E mode \in BOOLEAN, b \in 1..MaxBatch, w \in 1..MaxWorkers :
           StartRun(TRUE, mode, b, w)
    \/ Reconcile
    \/ Discover
    \/ Exit

SpecResetStart == StartupInit /\ [][ResetStartNext]_vars

(***************************************************************************)
(* reconcile_checkpoint and find_missing_cells on their own, applied to    *)
(* any grid and any ledger.                                                *)
(***************************************************************************)
KeyChars == {"0", "1", "2", "3", "-"}
KeyStrings == UNION {[1..n -> KeyChars] : n \in 1..MaxKeyLen}
\* the largest number of entries of an input ledger
MaxLedger == 1
UnitHeaders == {<<"Term", "S1", "S2">>, <<"Term", "", "S2">>}

\* the records a dataset file can hold under the header list hs: the first
\* record has every key (the headers are its keys), a later one may lack
\* section keys
UnitRecords(hs) ==
    LET all == Range(hs)
        first == {r \in [all -> {EmptyStr, Blanks, Filled}] : r[hs[1]] # Blanks}
        later == UNION {{r \in [ks -> {EmptyStr, Blanks, Filled}] : r[hs[1]] # Blanks} :
                           ks \in {k \in SUBSET all : hs[1] \in k}}
    IN  UNION {{rs \in [1..n -> later] : rs[1] \in first} : n \in 1..NRows}

UnitInit ==
    /\ diskKeys \in UnitHeaders
    /\ diskData \in UnitRecords(diskKeys)
    /\ diskCp \in SetsUpTo(KeyStrings, MaxLedger)
    /\ pc = "unit"
    /\ bottom_up = FALSE /\ BATCH_SIZE = 1 /\ MAX_WORKERS = 1
    /\ headers = diskKeys /\ records = diskData /\ checkpoint = diskCp
    /\ tasks = <<>> /\ i = 0 /\ queue = <<>> /\ running = {} /\ results = <<>>
    /\ updated = 0
    /\ before = {}
    /\ NoCall
    /\ NoHistory
    /\ GoodFiles

UnitReconcile == ReconcileStep("unit", "unit_reconciled")
UnitDiscover(mode) == DiscoverStep({"unit", "unit_reconciled"}, mode, "unit_found", "unit_found")

UnitNext ==
    \/ UnitReconcile
    \/ \E mode \in BOOLEAN : UnitDiscover(mode)

SpecUnit == UnitInit /\ [][UnitNext]_vars

(***************************************************************************)
(* One call of call_openai_api, request by request, against a service that *)
(* answers each request with any reply.                                    *)
(***************************************************************************)
CallInit ==
    /\ diskKeys = <<>> /\ diskData = <<>> /\ diskCp = {}
    /\ NoProcess
    /\ NoCall
    /\ NoHistory
    /\ GoodFiles

\* one iteration of the loop: the request, its reply, and what the loop does with it
CallAttempt(reply) ==
    /\ returned = <<>>
    /\ attempt <= MAX_RETRIES
    /\ LET st == attempt_step(attempt, reply)
       IN  /\ requests' = Append(requests, model_of(attempt))
           /\ replies' = Append(replies, reply)
           /\ sleeps' = sleeps \o st.sleep
           /\ returned' = IF st.ret THEN <<st.value>> ELSE <<>>
           /\ attempt' = IF st.ret THEN attempt ELSE attempt + 1
    /\ UNCHANGED <<fileVars, envVars, pc, argVars, memVars, histVars, other, updated>>

CallNext == \E reply \in ReplySet : CallAttempt(reply)

SpecCall == CallInit /\ [][CallNext]_vars

(***************************************************************************)
(* The scenario of the specification's section 8: two rows "A" and "B",    *)
(* three section columns, only cell (2, 1) filled, no checkpoint; one run. *)
(***************************************************************************)
ScenarioKeys == <<"Term", "S1", "S2", "S3">>
ScenarioCells == {<<r, c>> : r \in 2..3, c \in 1..3}

ScenarioInit ==
    /\ diskKeys = ScenarioKeys
    /\ diskData = [r \in 1..2 |-> [h \in Range(ScenarioKeys) |->
                      IF h = "Term" \/ (r = 1 /\ h = "S1") THEN Filled ELSE EmptyStr]]
    /\ diskCp = {}
    /\ NoProcess
    /\ NoCall
    /\ NoHistory
    /\ GoodFiles

ScenarioNext ==
    \/ \E mode \in BOOLEAN, b \in 1..MaxBatch, w \in 1..MaxWorkers :
           StartRun(FALSE, mode, b, w)
    \/ RunSteps

SpecScenario == ScenarioInit /\ [][ScenarioNext]_vars

(***************************************************************************)
(* find_missing_cells of the CSV twin: rows are lists, and the scan pads   *)
(* every row that is shorter than the header in place.                     *)
(***************************************************************************)
RECURSIVE csv_pad(_, _)
\* while len(row) < len(headers): row.append("")
csv_pad(row, hs) == IF Len(row) < Len(hs) THEN csv_pad(Append(row, EmptyStr), hs) ELSE row

csv_is_missing(hs, rows, cp, row_idx, col_idx) ==
    LET row == csv_pad(At(rows, row_idx), hs)
        term == IF Len(row) > 0 THEN row[1] ELSE EmptyStr
    IN  /\ Truthy(term)
        /\ At(hs, col_idx) # ""
        /\ ~(KeyOf(row_idx + 2, col_idx) \in cp \/ (col_idx < Len(row) /\ Truthy(At(row, col_idx))))

csv_find_missing_cells(hs, rows, cp, mode) ==
    LET cells == LoopOrder(hs, rows)
        keep(rc) == csv_is_missing(hs, rows, cp, rc[1], rc[2])
        picked == SelectSeq(cells, keep)
        found == [k \in 1..Len(picked) |->
                     Task(picked[k][1] + 2, picked[k][2],
                          csv_pad(At(rows, picked[k][1]), hs)[1], At(hs, picked[k][2]))]
    IN  IF mode THEN Reversed(found) ELSE found

CsvRows == UNION {[1..n -> {EmptyStr, Filled}] : n \in 0..3}

CsvInit ==
    /\ diskKeys = EngineKeys
    /\ diskData \in UNION {[1..n -> CsvRows] : n \in 1..NRows}
    /\ diskCp \in SetsUpTo({KeyOf(c[1], c[2]) : c \in EngineCells}, MaxInitMarks)
    /\ pc = "csv"
    /\ bottom_up = FALSE /\ BATCH_SIZE = 1 /\ MAX_WORKERS = 1
    /\ headers = diskKeys /\ records = diskData /\ checkpoint = diskCp
    /\ tasks = <<>> /\ i = 0 /\ queue = <<>> /\ running = {} /\ results = <<>>
    /\ updated = 0
    /\ before = {}
    /\ NoCall
    /\ NoHistory
    /\ GoodFiles

\* tasks = find_missing_cells(headers, rows, checkpoint, bottom_up) of the CSV twin
CsvDiscover(mode) ==
    /\ pc = "csv"
    /\ bottom_up' = mode
    /\ tasks' = csv_find_missing_cells(headers, records, checkpoint, mode)
    /\ records' = [r \in 1..Len(records) |-> csv_pad(records[r], headers)]
    /\ pc' = "csv_found"
    /\ UNCHANGED <<fileVars, envVars, BATCH_SIZE, MAX_WORKERS, headers, checkpoint, i,
                   queue, running, results, callVars, other, updated, histVars>>

CsvNext == \E mode \in BOOLEAN : CsvDiscover(mode)

SpecCsv == CsvInit /\ [][CsvNext]_vars

(***************************************************************************)
(* One run of the job with every call taken request by request: a running  *)
(* call is its task with the attempt its retry loop is at.  The sleeps     *)
(* between requests are finite and not recorded; requests lists the model  *)
(* of every request the run has made.                                      *)
(***************************************************************************)
LiveReplies == {Raises, Replies(EmptyStr), Replies(NewText)}

LiveInit ==
    /\ diskKeys = EngineKeys
    /\ diskData \in [1..NRows -> [{"Term", "S1", "S2"} -> {EmptyStr, Filled}]]
    /\ \A r \in 1..NRows : diskData[r]["Term"] = Filled
    /\ diskCp = {}
    /\ NoProcess
    /\ NoCall
    /\ NoHistory
    /\ GoodFiles

\* a free thread of the pool starts the next submitted call: attempt 0 of
\* call_openai_api
CallStart ==
    /\ pc = "pool"
    /\ queue # <<>>
    /\ Cardinality(running) < MAX_WORKERS
    /\ running' = running \cup {[row |-> Head(queue).row, col |-> Head(queue).col,
                                  term |-> Head(queue).term,
                                  section |-> Head(queue).section, attempt |-> 0]}
    /\ queue' = Tail(queue)
    /\ UNCHANGED <<fileVars, envVars, pc, argVars, headers, records, checkpoint, tasks,
                   i, results, callVars, other, updated, histVars>>

\* one iteration of the retry loop of a running call: the request gets its
\* reply; the loop goes on to the next attempt, or the call returns and the
\* main thread appends (row, col, text) to results
CallRequest(t, reply) ==
    /\ pc = "pool"
    /\ t \in running
    /\ t.attempt <= MAX_RETRIES
    /\ requests' = Append(requests, model_of(t.attempt))
    /\ LET st == attempt_step(t.attempt, reply)
       IN  IF st.ret
           THEN /\ running' = running \ {t}
                /\ results' = Append(results, <<t.row, t.col, st.value>>)
                /\ failed' = (failed \/ ~Truthy(st.value))
                /\ failedCells' = IF Truthy(st.value) THEN failedCells
                                  ELSE failedCells \cup {Cell(t)}
           ELSE /\ running' = (running \ {t}) \cup {[t EXCEPT !.attempt = @ + 1]}
                /\ UNCHANGED <<results, failed, failedCells>>
    /\ UNCHANGED <<fileVars, envVars, pc, argVars, headers, records, checkpoint, tasks,
                   i, queue, attempt, sleeps, returned, replies, other, updated, before,
                   committed, lostBatch, lostMarks, dirty, reconciled, raised, prevClean>>

\* the steps of the run from the loaded files to the end of the loop
LiveSteps ==
    \/ Reconcile
    \/ Discover
    \/ Dispatch
    \/ CallStart
    \/ \E t \in running, reply \in LiveReplies : CallRequest(t, reply)
    \/ ApplyBatch
    \/ SaveData
    \/ Finish

LiveNext ==
    \/ \E mode \in BOOLEAN, b \in 1..MaxBatch, w \in 1..MaxWorkers :
           StartRun(FALSE, mode, b, w)
    \/ LiveSteps

\* the main thread goes on and every request returns a reply or raises
SpecLive == LiveInit /\ [][LiveNext]_vars /\ WF_vars(LiveSteps)

(***************************************************************************)
(* Two instances of the job on the same dataset file and checkpoint file,  *)
(* started without coordination: the engine above running top-down, and a  *)
(* second process running bottom-up with batches of one cell.  The second  *)
(* process takes a batch's calls, update_json_data and update_checkpoint   *)
(* in one step and its save_json_data in another.  The checkpoint file     *)
(* holds a JSON object throughout.                                         *)
(***************************************************************************)
\* batch_process_parallel(bottom_up=True) up to the task list: load both
\* files, reconcile_checkpoint (saving when it removed a key), find_missing_cells
OtherStart ==
    /\ other.pc = "none"
    /\ LET hs == load_headers
           gone == to_remove(diskData, hs, diskCp)
           cp == diskCp \ gone
           found == find_missing_cells(hs, diskData, cp, TRUE)
       IN  /\ diskCp' = cp
           /\ other' = [pc |-> IF found = <<>> THEN "done" ELSE "loop",
                        headers |-> hs, records |-> diskData, checkpoint |-> cp,
                        tasks |-> found, i |-> 0, results |-> <<>>, filled |-> {}]
    /\ UNCHANGED <<diskKeys, diskData, envVars, pc, argVars, memVars, updated, callVars,
                   histVars>>

\* one batch of the second process: the call of its task returns text, then
\* update_json_data and update_checkpoint, which saves the checkpoint file
OtherBatch(text) ==
    /\ other.pc = "loop"
    /\ other.i < Len(other.tasks)
    /\ LET t == other.tasks[other.i + 1]
           rs == <<<<t.row, t.col, text>>>>
           cp == other.checkpoint \cup marks(rs)
       IN  /\ other' = [other EXCEPT !.pc = "applied",
                                      !.results = rs,
                                      !.records = update_json_data(@, other.headers, rs),
                                      !.checkpoint = cp,
                                      !.filled = IF Truthy(text) THEN @ \cup {Cell(t)} ELSE @]
           /\ diskCp' = IF marks(rs) # {} THEN cp ELSE diskCp
    /\ UNCHANGED <<diskKeys, diskData, envVars, pc, argVars, memVars, updated, callVars,
                   histVars>>

\* save_json_data(JSON_FILE, records) of the second process, then its next batch
OtherSave ==
    /\ other.pc = "applied"
    /\ diskData' = other.records
    /\ other' = [other EXCEPT !.pc = "loop", !.i = @ + 1]
    /\ UNCHANGED <<diskKeys, diskCp, envVars, pc, argVars, memVars, updated, callVars,
                   histVars>>

\* the loop of the second process is over
OtherFinish ==
    /\ other.pc = "loop"
    /\ other.i >= Len(other.tasks)
    /\ other' = [other EXCEPT !.pc = "done"]
    /\ UNCHANGED <<fileVars, envVars, pc, argVars, memVars, updated, callVars, histVars>>

\* both instances start on a dataset with empty cells and an empty ledger
TwoInit ==
    /\ diskKeys = EngineKeys
    /\ diskData \in [1..NRows -> [{"Term", "S1", "S2"} -> {EmptyStr, Filled}]]
    /\ \A r \in 1..NRows : diskData[r]["Term"] = Filled
    /\ diskCp = {}
    /\ NoProcess
    /\ NoCall
    /\ NoHistory
    /\ GoodFiles

TwoNext ==
    \/ \E b \in 1..MaxBatch, w \in 1..MaxWorkers : StartRun(FALSE, FALSE, b, w)
    \/ RunSteps
    \/ OtherStart
    \/ \E text \in {None, NewText} : OtherBatch(text)
    \/ OtherSave
    \/ OtherFinish

SpecTwo == TwoInit /\ [][TwoNext]_vars

(***************************************************************************)
(* update_json_data and update_csv_data on any list of results, results    *)
(* that address no cell of the grid among them.                            *)
(***************************************************************************)
RECURSIVE csv_grow(_, _)
\* while len(rows[data_row_idx]) <= col: rows[data_row_idx].append("")
csv_grow(row, col) == IF Len(row) <= col THEN csv_grow(Append(row, EmptyStr), col) ELSE row

\* update_csv_data writes the result: its text is truthy, its row is in
\* range and rows[data_row_idx][col] does not raise (the IndexError of a
\* negative col below -len(row) is caught and logged)
csv_writes(rows, res) ==
    LET row == res[1]
        col == res[2]
        text == res[3]
        data_row_idx == row - 2
    IN  /\ Truthy(text)
        /\ data_row_idx >= 0 /\ data_row_idx < Len(rows)
        /\ ~IndexError(csv_grow(At(rows, data_row_idx), col), col)

\* the body of update_csv_data's loop for one result
csv_apply_result(rows, res) ==
    LET col == res[2]
        text == res[3]
        data_row_idx == res[1] - 2
    IN  IF csv_writes(rows, res)
        THEN LET grown == csv_grow(At(rows, data_row_idx), col)
                 at == IF col < 0 THEN Len(grown) + col + 1 ELSE col + 1
             IN  [rows EXCEPT ![data_row_idx + 1] = [grown EXCEPT ![at] = text]]
        ELSE rows

RECURSIVE update_csv_data(_, _)
update_csv_data(rows, rs) ==
    IF rs = <<>> THEN rows
    ELSE update_csv_data(csv_apply_result(rows, Head(rs)), Tail(rs))

RECURSIVE update_csv_count(_, _)
\* the number update_csv_data returns
update_csv_count(rows, rs) ==
    IF rs = <<>> THEN 0
    ELSE (IF csv_writes(rows, Head(rs)) THEN 1 ELSE 0)
         + update_csv_count(csv_apply_result(rows, Head(rs)), Tail(rs))

\* results for rows above, in and below the grid and for columns before,
\* in and beyond the header
ApplyResults == {<<row, col, text>> : row \in {1, 2, NRows + 2}, col \in {-4, -1, 1, 3},
                                      text \in {None, NewText}}

ApplyInit ==
    /\ diskKeys = EngineKeys
    /\ pc \in {"apply_json", "apply_csv"}
    /\ diskData \in (IF pc = "apply_json"
                     THEN [1..NRows -> [{"Term", "S1", "S2"} -> {EmptyStr, Filled}]]
                     ELSE [1..NRows -> CsvRows])
    /\ diskCp = {}
    /\ bottom_up = FALSE /\ BATCH_SIZE = 1 /\ MAX_WORKERS = 1
    /\ headers = diskKeys /\ records = diskData /\ checkpoint = diskCp
    /\ tasks = <<>> /\ i = 0 /\ queue = <<>> /\ running = {}
    /\ results \in UNION {[1..n -> ApplyResults] : n \in 1..MaxBatch}
    /\ updated = 0
    /\ before = {}
    /\ NoCall
    /\ NoHistory
    /\ GoodFiles

\* updated = update_json_data(records, headers, results);
\* update_checkpoint(checkpoint, results), the file not modelled
ApplyJson ==
    /\ pc = "apply_json"
    /\ records' = update_json_data(records, headers, results)
    /\ updated' = update_json_count(records, headers, results)
    /\ checkpoint' = checkpoint \cup marks(results)
    /\ pc' = "json_applied"
    /\ UNCHANGED <<fileVars, envVars, argVars, headers, tasks, i, queue, running, results,
                   callVars, other, histVars>>

\* the same two lines of the CSV twin
ApplyCsv ==
    /\ pc = "apply_csv"
    /\ records' = update_csv_data(records, results)
    /\ updated' = update_csv_count(records, results)
    /\ checkpoint' = checkpoint \cup marks(results)
    /\ pc' = "csv_applied"
    /\ UNCHANGED <<fileVars, envVars, argVars, headers, tasks, i, queue, running, results,
                   callVars, other, histVars>>

ApplyNext == ApplyJson \/ ApplyCsv

SpecApply == ApplyInit /\ [][ApplyNext]_vars

(***************************************************************************)
(* Properties.                                                             *)
(***************************************************************************)
\* the cell of the dataset file at display row c[1] and column c[2]
DiskCell(c) == Get(At(diskData, c[1] - 2), At(diskKeys, c[2]))
DiskGrid == {<<r, c>> : r \in 2..(Len(diskData) + 1), c \in 0..(Len(load_headers) - 1)}
\* every cell the checkpoint file marks is non-empty in the dataset file
MarkedCellsFilled == \A c \in DiskGrid : KeyOf(c[1], c[2]) \in diskCp => Truthy(DiskCell(c))

\* C1 as claimed: once reconcile_checkpoint has run, between runs every cell
\* the checkpoint file marks is non-empty in the dataset file, wherever the
\* previous run ended or was killed.
C1_MarkedFilledBetweenRuns == (reconciled /\ pc = "idle") => MarkedCellsFilled

\* C1 as amended: once reconcile_checkpoint has run, every cell the
\* checkpoint file marks is non-empty in the dataset file, except from a
\* batch's checkpoint save until the dataset save of that batch or the next
\* reconcile_checkpoint (a run killed between the two saves leaves such marks).
C1_MarkedFilledOutsideCommit == (reconciled /\ ~dirty) => MarkedCellsFilled

\* a run was killed in the middle of a batch after an earlier batch was saved
C1_Witness ==
    /\ reconciled /\ ~dirty /\ pc = "idle"
    /\ lostBatch # {}
    /\ \E c \in committed : KeyOf(c[1], c[2]) \in diskCp

\* C2: after a kill in the middle of a batch and a restart (load and
\* reconcile_checkpoint), the dataset file and the checkpoint file hold every
\* generated cell of the batches saved before and no cell of the batch that
\* was in flight.
C2_BatchAtomic ==
    pc \in {"reconciled", "loop", "done"} =>
        /\ \A c \in lostBatch : ~Truthy(DiskCell(c)) /\ KeyOf(c[1], c[2]) \notin diskCp
        /\ \A c \in committed : Truthy(DiskCell(c)) /\ KeyOf(c[1], c[2]) \in diskCp

\* restarted and reconciled after a kill that lost a batch of two
C2_Witness ==
    /\ pc = "reconciled"
    /\ Cardinality(lostBatch) >= 2
    /\ committed # {}
    /\ before # checkpoint

\* C3: a cell whose generated text is saved in the dataset file is never
\* submitted to the service again, in this run or a later one, even when its
\* checkpoint entry is gone.
C3_NoResubmit == \A t \in running \cup Range(queue) : Cell(t) \notin committed

\* calls are in flight while a saved cell has lost its checkpoint entry
C3_Witness ==
    /\ pc = "pool"
    /\ running # {}
    /\ \E c \in committed : KeyOf(c[1], c[2]) \notin checkpoint

\* C4: in the run that follows a run which ended with no failed call, no task
\* is discovered, no call is made and neither file changes.
C4_Idempotent ==
    [][prevClean => /\ UNCHANGED <<diskKeys, diskData, diskCp>>
                    /\ tasks' = <<>>
                    /\ pc' \notin {"loop", "pool", "applied"}
                    /\ running' = {} /\ queue' = <<>>]_vars

\* the second run has reached its end after a first run that filled cells
C4_Witness == prevClean /\ pc = "done" /\ committed # {} /\ reconciled

(***************************************************************************)
(* What a checkpoint key addresses, read off the format "{row}-{col}"      *)
(* (decimal numerals, leading zeros allowed) rather than off the parser.   *)
(***************************************************************************)
RECURSIVE Pow10(_)
Pow10(n) == IF n = 0 THEN 1 ELSE 10 * Pow10(n - 1)
Zeros(n) == [k \in 1..n |-> "0"]
\* seg is a numeral of n
Denotes(seg, n) ==
    /\ Len(seg) >= Len(str_int(n))
    /\ seg = Zeros(Len(seg) - Len(str_int(n))) \o str_int(n)
EmptyOrBlank(record, header) == header \notin DOMAIN record \/ record[header].core = 0
\* key is "{r}-{c}" for a row r or a column c out of range, or for a cell
\* that is empty or blank
ShouldGo(key) ==
    \E j \in 1..Len(key) :
        /\ key[j] = "-"
        /\ \E r \in 0..(Pow10(j - 1) - 1) :
               /\ Denotes(SubSeq(key, 1, j - 1), r)
               /\ \E c \in 0..(Pow10(Len(key) - j) - 1) :
                      /\ Denotes(SubSeq(key, j + 1, Len(key)), c)
                      /\ \/ r < 2 \/ r > Len(records) + 1
                         \/ c >= Len(headers)
                         \/ EmptyOrBlank(records[r - 1], headers[c + 1])

\* C5: reconcile_checkpoint removes exactly the entries whose row is out of
\* range, whose column is out of range or whose cell is empty or
\* whitespace-only, and no other entry.
C5_ReconcileExact ==
    pc = "unit_reconciled" => checkpoint = {key \in before : ~ShouldGo(key)}

\* an entry that addresses a cell of the grid was removed
C5_Witness ==
    /\ pc = "unit_reconciled"
    /\ \E r \in 2..(Len(records) + 1), c \in 1..(Len(headers) - 1) :
           /\ KeyOf(r, c) \in before \ checkpoint
           /\ Get(records[r - 1], headers[c + 1]) = Blanks

HasTask(r, c) == \E k \in 1..Len(tasks) : tasks[k].row = r /\ tasks[k].col = c
Wanted(r, c) ==
    LET record == records[r - 1]
    IN  /\ headers[1] \in DOMAIN record /\ record[headers[1]] # EmptyStr
        /\ c >= 1
        /\ headers[c + 1] # ""
        /\ KeyOf(r, c) \notin checkpoint
        /\ (headers[c + 1] \notin DOMAIN record \/ record[headers[c + 1]] = EmptyStr)

\* C6: find_missing_cells returns a task for the cell (row, col) exactly when
\* the row has a non-empty entity name, col >= 1 has a non-empty header,
\* "row-col" is not in the ledger and the cell is empty or absent (the first
\* data row is row 2).
C6_DiscoverExact ==
    pc = "unit_found" =>
        /\ \A r \in 2..(Len(records) + 1), c \in 0..(Len(headers) - 1) :
               HasTask(r, c) <=> Wanted(r, c)
        /\ \A k \in 1..Len(tasks) :
               /\ tasks[k].row \in 2..(Len(records) + 1)
               /\ tasks[k].col \in 0..(Len(headers) - 1)

\* a scan that returned tasks and left out an empty cell because the ledger marks it
C6_Witness ==
    /\ pc = "unit_found"
    /\ tasks # <<>>
    /\ \E r \in 2..(Len(records) + 1), c \in 1..(Len(headers) - 1) :
           /\ KeyOf(r, c) \in checkpoint
           /\ headers[c + 1] # ""
           /\ Truthy(Get(records[r - 1], headers[1]))
           /\ ~Truthy(Get(records[r - 1], headers[c + 1]))
           /\ ~HasTask(r, c)

RowMajorBefore(a, b) == a.row < b.row \/ (a.row = b.row /\ a.col < b.col)

\* C7: the top-down task list is in row-major order; the bottom-up list is
\* the same tasks in exactly the opposite order, rows not interleaved.
C7_OrderExact ==
    pc = "unit_found" =>
        /\ \A j, k \in 1..Len(tasks) :
               j < k => IF bottom_up THEN RowMajorBefore(tasks[k], tasks[j])
                                     ELSE RowMajorBefore(tasks[j], tasks[k])
        /\ Range(tasks) = Range(find_missing_cells(headers, records, checkpoint, FALSE))

\* a bottom-up list over two rows with two tasks each
C7_Witness ==
    /\ pc = "unit_found"
    /\ bottom_up
    /\ Len(tasks) = 4
    /\ tasks[1].row = 3 /\ tasks[1].col = 2

\* C8 as claimed, for the CSV twin: find_missing_cells changes neither the
\* headers, the rows, the ledger nor a file.
C8_CsvDiscoverPure ==
    [][(pc = "csv" /\ pc' = "csv_found") =>
           UNCHANGED <<headers, records, checkpoint, diskKeys, diskData, diskCp>>]_vars

\* the same of the JSON scan, which does hold
C8_JsonDiscoverPure ==
    [][(pc \in {"unit", "unit_reconciled"} /\ pc' = "unit_found") =>
           UNCHANGED <<headers, records, checkpoint, diskKeys, diskData, diskCp>>]_vars

ScenarioKeysLeft ==
    {<<"2", "-", "2">>, <<"2", "-", "3">>, <<"3", "-", "1">>, <<"3", "-", "2">>, <<"3", "-", "3">>}

\* C9: in the scenario the scan yields exactly the 5 cells other than (2, 1);
\* a run all of whose calls succeed ends with exactly those 5 checkpoint
\* entries and all 6 cells of the dataset non-empty.
C9_Scenario ==
    /\ pc \in {"loop", "pool", "applied", "done"} =>
           /\ Len(tasks) = 5
           /\ {Cell(t) : t \in Range(tasks)} = ScenarioCells \ {<<2, 1>>}
    /\ (pc = "done" /\ ~failed) =>
           /\ checkpoint = ScenarioKeysLeft
           /\ diskCp = ScenarioKeysLeft
           /\ \A c \in ScenarioCells : Truthy(DiskCell(c))

\* a run of the scenario ended and none of its calls failed
C9_Witness == pc = "done" /\ ~failed /\ Len(tasks) = 5 /\ Cardinality(committed) = 5

AllTimeouts == \A k \in 1..Len(replies) : replies[k] = Raises

\* C10: when every request times out, one call makes MAX_RETRIES requests
\* to the primary model, then one to the fallback model, returns None, and
\* slept strictly increasing delays between the requests.
C10_Exhaustion ==
    (returned # <<>> /\ AllTimeouts) =>
        /\ requests = [k \in 1..(MAX_RETRIES + 1) |->
                          IF k <= MAX_RETRIES THEN PRIMARY_MODEL ELSE FALLBACK_MODEL]
        /\ returned = <<None>>
        /\ Len(sleeps) = MAX_RETRIES
        /\ \A k \in 1..(Len(sleeps) - 1) : sleeps[k] < sleeps[k + 1]

\* a call returned after the service timed out on every request
C10_Witness == returned # <<>> /\ AllTimeouts /\ Len(replies) = MAX_RETRIES + 1

\* the reply is a text that is empty after trimming or no longer than MIN_LENGTH
ShortText(reply) == ~reply.exc /\ len(strip(reply.content)) <= MIN_LENGTH

\* C11: a reply whose trimmed text is empty or has at most MIN_LENGTH (10)
\* characters is not returned on a non-final attempt, the call goes on to
\* the next attempt; on the final attempt the trimmed text is returned
\* whatever its length.
C11_ShortRetried ==
    \A k \in 1..Len(replies) :
        ShortText(replies[k]) =>
            IF k <= MAX_RETRIES
            THEN Len(replies) = k => (returned = <<>> /\ attempt = k)
            ELSE returned = <<strip(replies[k].content)>>

\* a text of exactly MIN_LENGTH characters was retried and the padded short
\* text of the final attempt was returned trimmed
C11_Witness ==
    /\ Len(replies) = MAX_RETRIES + 1
    /\ replies[1] = Replies(Str(MIN_LENGTH, 0))
    /\ replies[MAX_RETRIES + 1] = Replies(Str(1, MaxPad))
    /\ returned = <<Str(1, 0)>>

\* C12: an exception of the service on any attempt never leaves the call: on
\* a non-final attempt the call goes on to the next attempt, on the final
\* attempt it returns None; whatever the replies, what the call returns is
\* None or a text.
C12_NeverRaises ==
    /\ \A k \in 1..Len(replies) :
           replies[k].exc =>
               IF k <= MAX_RETRIES
               THEN Len(replies) = k => (returned = <<>> /\ attempt = k)
               ELSE returned = <<None>>
    /\ returned # <<>> => (returned[1] = None \/ returned[1] = strip(returned[1]))
    /\ returned # <<Propagates>>

\* the final attempt raised after a short text and an exception earlier on
C12_Witness ==
    /\ Len(replies) = MAX_RETRIES + 1
    /\ ShortText(replies[1])
    /\ replies[2].exc
    /\ replies[MAX_RETRIES + 1].exc
    /\ returned = <<None>>

\* C13: the calls in flight are never more than the worker count, whatever
\* the batch size.
C13_WorkerCap == Cardinality(running) <= MAX_WORKERS

\* as many calls in flight as there are workers while a call of the batch waits
C13_Witness ==
    /\ pc = "pool"
    /\ Cardinality(running) = MAX_WORKERS
    /\ queue # <<>>
    /\ BATCH_SIZE > MAX_WORKERS

\* the number of tasks of the batch that starts at index i
BatchLen == Min(i + BATCH_SIZE, Len(tasks)) - i

\* C14: while a batch is handled, the grid and the ledger change, in memory
\* or on disk, only in a step of the main thread taken when every call of
\* the batch has returned and its result is collected; a step of a worker
\* changes none of them.
C14_ApplyAfterDrain ==
    [][(/\ pc \in {"pool", "applied"}
        /\ pc' \in {"pool", "applied", "loop"}
        /\ <<records, checkpoint, diskData, diskCp>>' # <<records, checkpoint, diskData, diskCp>>)
       => (/\ queue = <<>>
           /\ running = {}
           /\ Len(results) = BatchLen
           /\ results' = results)]_vars

\* a batch of two was applied in memory after both calls returned
C14_Witness ==
    /\ pc = "applied"
    /\ Len(results) = MaxBatch
    /\ records # diskData
    /\ checkpoint = diskCp

\* C15: while calls of a batch are submitted or in flight, both files hold
\* everything the earlier batches produced (they equal the grid and the
\* ledger in memory), and every such call is a task of the current batch.
C15_BatchesSequential ==
    pc = "pool" =>
        /\ diskData = records
        /\ diskCp = checkpoint
        /\ running \cup Range(queue) \subseteq
               {tasks[k] : k \in (i + 1)..Min(i + BATCH_SIZE, Len(tasks))}

\* calls of a second batch are in flight and the first batch filled a cell
C15_Witness ==
    /\ pc = "pool"
    /\ i > 0
    /\ running # {}
    /\ \E k \in 1..i : KeyOf(tasks[k].row, tasks[k].col) \in diskCp

\* the results of the batch that was saved last
SavedBatchLen == Min(i, Len(tasks)) - (i - BATCH_SIZE)

\* C16: when the future of a task raises, the run goes on: the task's result
\* is None, every task of the batch has its result, and once the batch is
\* saved every text of the batch is in the dataset file and marked in the
\* checkpoint file.
C16_RaiseIsolated ==
    /\ raised # {} => pc # "fatal"
    /\ \A c \in raised : \E k \in 1..Len(results) : results[k] = <<c[1], c[2], None>>
    /\ (raised # {} /\ pc \in {"loop", "done"}) =>
           /\ Len(results) = SavedBatchLen
           /\ \A k \in 1..Len(results) :
                  Truthy(results[k][3]) =>
                      /\ DiskCell(<<results[k][1], results[k][2]>>) = results[k][3]
                      /\ KeyOf(results[k][1], results[k][2]) \in diskCp

\* a batch was saved in which one task raised and another returned a text
C16_Witness ==
    /\ pc = "loop"
    /\ raised # {}
    /\ \E k \in 1..Len(results) : Truthy(results[k][3])
    /\ i < Len(tasks)

\* C17 as claimed: when the run ends on an interrupt, every text the batch
\* had produced is in the dataset file and marked in the checkpoint file.
C17_InterruptFlushes ==
    pc = "interrupted" =>
        \A k \in 1..Len(results) :
            Truthy(results[k][3]) =>
                /\ DiskCell(<<results[k][1], results[k][2]>>) = results[k][3]
                /\ KeyOf(results[k][1], results[k][2]) \in diskCp

\* C18 as claimed: a run started without a dataset file ends with a
\* non-zero exit status and leaves every file as it was.
C18_MissingDatasetAborts ==
    [][(pc = "idle" /\ ~dataExists /\ pc' # "idle")
       => (UNCHANGED <<fileVars, envVars>> /\ exit_status(pc') # 0)]_vars

\* C19 as claimed: whatever the checkpoint file holds, the run is not
\* aborted, and it reaches reconciliation and discovery with no bad
\* checkpoint file left in place.
C19_CorruptNeverFatal ==
    /\ pc # "fatal"
    /\ (dataExists /\ pc \in {"reconciled", "loop", "done"}) =>
           cpFile \in {"absent", "dict"}

Marked(c) == KeyOf(c[1], c[2]) \in diskCp

\* C20 as claimed: once reconcile_checkpoint has run, at every point (a kill
\* can come at any) the checkpoint file marks no cell that is empty in the
\* dataset file, and the dataset file holds no generated text whose cell the
\* checkpoint file does not mark.
C20_CommitAtomic ==
    reconciled =>
        /\ \A c \in EngineCells : Marked(c) => Truthy(DiskCell(c))
        /\ \A c \in committed : Marked(c)

\* C20 as amended: the dataset file never holds a generated text whose cell
\* the checkpoint file does not mark; once reconcile_checkpoint has run, the
\* checkpoint file marks an empty cell only between the checkpoint save and
\* the dataset save of the batch of that cell, or, after a kill between the
\* two, until the next run has reconciled.
C20_MarksBeforeValues ==
    /\ \A c \in committed : Marked(c) /\ Truthy(DiskCell(c))
    /\ reconciled =>
           \A c \in EngineCells :
               (Marked(c) /\ ~Truthy(DiskCell(c))) =>
                   \/ pc = "applied" /\ KeyOf(c[1], c[2]) \in marks(results)
                   \/ pc \in {"idle", "loaded"} /\ c \in lostBatch

\* between the two saves of a second batch
C20_Witness ==
    /\ pc = "applied"
    /\ reconciled
    /\ committed # {}
    /\ \E c \in EngineCells : Marked(c) /\ ~Truthy(DiskCell(c))

\* C25: every retry of one call, a retry after a too-short or empty
\* text included, is preceded by a sleep of RETRY_DELAY times the attempt
\* number: the k-th retry follows a sleep of RETRY_DELAY * k, so no two
\* consecutive requests are issued without a delay between them.
C25_EveryRetrySleeps ==
    /\ Len(sleeps) = attempt
    /\ \A k \in 1..Len(sleeps) : sleeps[k] = RETRY_DELAY * k

\* C26: whatever the service answers, one call issues at most
\* MAX_RETRIES + 1 requests; the first MAX_RETRIES go to the primary model
\* and only the last one to the fallback model; every request after the
\* first follows a request that raised or whose text was too short, so the
\* fallback request follows MAX_RETRIES such primary requests.
C26_FallbackLast ==
    /\ Len(requests) <= MAX_RETRIES + 1
    /\ Len(replies) = Len(requests)
    /\ \A k \in 1..Len(requests) :
           /\ requests[k] = (IF k <= MAX_RETRIES THEN PRIMARY_MODEL ELSE FALLBACK_MODEL)
           /\ k > 1 => (replies[k - 1].exc \/ ShortText(replies[k - 1]))
    /\ (returned # <<>> /\ Len(requests) <= MAX_RETRIES) =>
           ~(replies[Len(replies)].exc \/ ShortText(replies[Len(replies)]))

\* the fallback model answered with a text after the primary model raised
\* and then answered too short
C26_Witness ==
    /\ Len(requests) = MAX_RETRIES + 1
    /\ requests[MAX_RETRIES + 1] = FALLBACK_MODEL
    /\ replies[1].exc
    /\ \A k \in 2..MAX_RETRIES : ShortText(replies[k])
    /\ returned = <<Str(MIN_LENGTH + 1, 0)>>

\* the cells of a list of tasks
TaskCells(ts) == {Cell(ts[k]) : k \in 1..Len(ts)}

\* C21: a task whose call failed (it returned None or an empty text) is not
\* submitted again in the same run, its key is never marked in the ledger,
\* in memory or in the file, and the discovery of the next invocation
\* returns its cell again.
C21_FailedNotMarked ==
    /\ \A t \in Range(queue) \cup running : Cell(t) \notin failedCells
    /\ \A c \in failedCells : KeyOf(c[1], c[2]) \notin (checkpoint \cup diskCp)
    /\ (pc = "loop" /\ i = 0) => failedCells \subseteq TaskCells(tasks)

\* the next invocation has discovered its tasks, a cell that failed in the
\* run before among them, while the ledger file holds the run's successes
C21_Witness ==
    /\ pc = "loop" /\ i = 0
    /\ failedCells # {}
    /\ failedCells \subseteq TaskCells(tasks)
    /\ committed # {}
    /\ diskCp # {}

\* the keys of a set of cells
CellKeys(cells) == {KeyOf(c[1], c[2]) : c \in cells}

\* the cells of the current batch whose call returned a non-empty text
Texts == {<<results[k][1], results[k][2]>> : k \in {j \in 1..Len(results) : Truthy(results[j][3])}}

\* C27: a key is marked in the ledger only for a task whose result is a
\* non-empty text: every key the run added to the ledger, in memory or in
\* the file, is the key of such a result, the key of a result that is
\* None or "" is not marked when its batch is applied, and no cell whose
\* call failed is among the succeeded ones.
C27_MarksOnlyText ==
    /\ pc \in {"reconciled", "loop", "pool", "applied", "done"} =>
           ((checkpoint \cup diskCp) \ before) \subseteq
               CellKeys(committed \cup (IF pc = "applied" THEN Texts ELSE {}))
    /\ pc = "applied" =>
           \A k \in 1..Len(results) :
               ~Truthy(results[k][3]) =>
                   KeyOf(results[k][1], results[k][2]) \notin (checkpoint \cup diskCp)
    /\ committed \cap failedCells = {}

\* a batch with a None and a text was applied: only the key of the text
\* is marked
C27_Witness ==
    /\ pc = "applied"
    /\ \E k \in 1..Len(results) : results[k][3] = None
    /\ \E k \in 1..Len(results) : results[k][3] # None /\ Truthy(results[k][3])
    /\ CellKeys(Texts) \subseteq diskCp
    /\ \A k \in 1..Len(results) :
           ~Truthy(results[k][3]) => KeyOf(results[k][1], results[k][2]) \notin diskCp

\* the start of a run reconciles after a kill that left marks without values
ReconcilesLostMarks == pc = "loaded" /\ pc' = "reconciled" /\ lostMarks # {}

\* C28: when a run is killed between the checkpoint save and the dataset
\* save of a batch, the reconcile_checkpoint of the next invocation removes
\* exactly the marks of that batch, from memory and from the file, so that
\* no marked cell is empty afterwards; it runs before discovery, which then
\* returns every cell of that batch as a task again.
C28_LostMarksRequeued ==
    /\ [][ReconcilesLostMarks =>
              /\ checkpoint \ checkpoint' = lostMarks
              /\ diskCp' = diskCp \ lostMarks
              /\ tasks' = <<>>
              /\ \A c \in DiskGrid : KeyOf(c[1], c[2]) \in diskCp' => Truthy(DiskCell(c))]_vars
    /\ []((pc = "loop" /\ i = 0) =>
              /\ lostBatch \subseteq TaskCells(tasks)
              /\ CellKeys(lostBatch) \cap (checkpoint \cup diskCp) = {}
              /\ MarkedCellsFilled)

\* discovery returned the cells of a batch whose marks, saved before the
\* kill without their values, this run's reconcile has removed
C28_Witness ==
    /\ pc = "loop" /\ i = 0
    /\ lostBatch # {}
    /\ before \ checkpoint # {}
    /\ (before \ checkpoint) \subseteq CellKeys(lostBatch \cap TaskCells(tasks))
    /\ diskCp = checkpoint

\* the cells whose call returned a text in a run and whose text the dataset
\* file does not hold
Unsaved == {c \in committed \cup Texts : ~Truthy(DiskCell(c))}

\* C29: wherever the process is killed, the cells whose call already
\* returned a text and whose value is not in the dataset file are at most
\* batch_size: the texts of the batch in flight.
C29_AtMostOneBatchLost ==
    /\ Cardinality(Unsaved) <= BATCH_SIZE
    /\ Unsaved \subseteq {Cell(tasks[k]) : k \in (i + 1)..Min(i + BATCH_SIZE, Len(tasks))}

\* a second batch of MaxBatch texts is applied and not yet saved
C29_Witness ==
    /\ pc = "applied"
    /\ BATCH_SIZE = MaxBatch
    /\ Cardinality(Unsaved) = BATCH_SIZE
    /\ i > 0

\* a run found no task and is over
EmptyRunDone == pc = "done" /\ dataExists /\ tasks = <<>>

\* C22 as claimed: a run whose task list is empty goes to Done without any
\* side effect: no call was made, the dataset file holds what the run
\* loaded and the checkpoint file holds what the run loaded.
C22_NoSideEffects ==
    EmptyRunDone =>
        /\ results = <<>> /\ queue = <<>> /\ running = {}
        /\ diskData = records
        /\ diskCp = before

\* C22 as amended: a run whose task list is empty goes to Done without
\* making a call and without changing the dataset file, and discovery
\* itself writes no file; the checkpoint file holds the loaded ledger less
\* the stale entries, which reconcile_checkpoint, running before discovery,
\* removed and saved.
C22_OnlyReconcileWrites ==
    /\ [](EmptyRunDone =>
              /\ results = <<>> /\ queue = <<>> /\ running = {}
              /\ diskData = records
              /\ checkpoint = {key \in before : ~ShouldGo(key)}
              /\ diskCp = checkpoint)
    /\ [][(pc = "reconciled" /\ pc' = "done") => UNCHANGED <<fileVars, envVars>>]_vars

\* a run found no task after its reconcile had removed a stale entry from
\* the checkpoint file
C22_Witness ==
    /\ EmptyRunDone
    /\ before # {}
    /\ diskCp = {}

\* C23: a run given --reset-checkpoint deletes the checkpoint file,
\* whatever it holds, before it loads the ledger, so that the run starts
\* from an empty ledger (no exception, no backup, every empty cell of a
\* named row a task), and the reset leaves the dataset file as it is.
C23_ResetEmptiesLedger ==
    /\ [][(pc = "idle" /\ pc' # "idle") =>
              /\ cpFile' = "absent" /\ diskCp' = {}
              /\ UNCHANGED <<diskKeys, diskData, dataExists, backups>>
              /\ dataExists => (pc' = "loaded" /\ checkpoint' = {} /\ records' = diskData)]_vars
    /\ [](pc \in {"loaded", "reconciled", "loop", "done"} =>
              /\ checkpoint = {} /\ diskCp = {} /\ cpFile = "absent"
              /\ pc \in {"loop", "done"} /\ dataExists =>
                     \A c \in EngineCells : ~Truthy(DiskCell(c)) => c \in TaskCells(tasks))

\* a run given --reset-checkpoint has discovered an empty cell from an
\* empty ledger, the checkpoint file gone
C23_Witness ==
    /\ pc = "loop"
    /\ cpFile = "absent"
    /\ checkpoint = {}
    /\ \E c \in EngineCells : ~Truthy(DiskCell(c)) /\ c \in TaskCells(tasks)

\* the result addresses a cell of the grid: a data row and a column of the header
InRange(res) ==
    /\ res[1] - 2 >= 0 /\ res[1] - 2 < Len(diskData)
    /\ res[2] >= 0 /\ res[2] < Len(headers)

C24_NoFillLost ==
    (pc = "done" /\ other.pc = "done") =>
        \A c \in committed \cup other.filled : Truthy(DiskCell(c))

\* reconcile_checkpoint runs
Reconciles == pc = "loaded" /\ pc' = "reconciled"

\* C31: reconcile_checkpoint writes the checkpoint file exactly when it
\* removed a key: then the file holds the ledger that is left; when no key
\* is stale the checkpoint file is left as it is, absent if it was absent.
\* It touches no other file.
C31_SavesIffRemoved ==
    [][Reconciles =>
          /\ IF checkpoint' # checkpoint
             THEN cpFile' = "dict" /\ diskCp' = checkpoint' /\ diskCp' # diskCp
             ELSE UNCHANGED <<cpFile, diskCp>>
          /\ UNCHANGED <<diskKeys, diskData, dataExists, backups>>]_vars

\* a start over an absent checkpoint file reconciled without creating it
C31_Witness ==
    /\ pc = "reconciled"
    /\ cpFile = "absent"
    /\ before = {} /\ checkpoint = {}
    /\ \E c \in EngineCells : ~Truthy(DiskCell(c))

\* the number of batches of a list of n tasks
Batches(n) == (n + BATCH_SIZE - 1) \div BATCH_SIZE

\* C32: when every request returns a reply or raises, a run that has
\* loaded its files reaches Done: it discovers its tasks first, then goes
\* through the pool once per batch, and makes at most
\* (MAX_RETRIES + 1) requests per task, |tasks| * (MAX_RETRIES + 1) in all.
C32_RunTerminates ==
    /\ (pc = "loaded") ~> (pc = "done")
    /\ [](pc \in {"pool", "applied"} => (tasks # <<>> /\ i < Len(tasks)))
    /\ [](pc = "done" => i = Batches(Len(tasks)) * BATCH_SIZE)
    /\ [](Len(requests) <= Min(i + BATCH_SIZE, Len(tasks)) * (MAX_RETRIES + 1))
    /\ [][pc' # pc =>
              \/ pc = "idle" /\ pc' = "loaded"
              \/ pc = "loaded" /\ pc' = "reconciled"
              \/ pc = "reconciled" /\ pc' \in {"loop", "done"}
              \/ pc = "loop" /\ pc' \in {"pool", "done"}
              \/ pc = "pool" /\ pc' = "applied"
              \/ pc = "applied" /\ pc' = "loop"]_vars

\* a run of two batches is done after every request of every task failed
C32_Witness ==
    /\ pc = "done"
    /\ Len(tasks) > BATCH_SIZE
    /\ Len(requests) = Len(tasks) * (MAX_RETRIES + 1)

\* the cells the top-down instance has submitted in its run
MainSubmitted ==
    {Cell(tasks[k]) : k \in 1..Min(i, Len(tasks))}
        \cup {Cell(t) : t \in running} \cup {<<results[k][1], results[k][2]>> : k \in 1..Len(results)}

\* the cells the bottom-up instance has submitted in its run
OtherSubmitted ==
    IF other.pc = "none" THEN {}
    ELSE {Cell(other.tasks[k]) :
             k \in 1..(IF other.pc = "applied" THEN other.i + 1 ELSE other.i)}

\* C33: when a top-down and a bottom-up instance run at the same time on
\* the same files, they converge from opposite ends: no cell is submitted to
\* the service by both.
C33_NoCellSubmittedTwice == MainSubmitted \cap OtherSubmitted = {}

\* the cells of the batch the loop is at
BatchCells == {Cell(tasks[k]) : k \in (i + 1)..Min(i + BATCH_SIZE, Len(tasks))}
\* the cells of the results collected so far
ResultCells == {<<results[k][1], results[k][2]>> : k \in 1..Len(results)}

\* C34: the task list holds each (row, col) at most once; while a batch is
\* in the pool each of its cells is waiting, running or has its one result,
\* so that the applied batch has exactly one result per task; and no cell of
\* the batch was submitted in an earlier batch of the run.
C34_OneTaskPerCell ==
    /\ Cardinality(TaskCells(tasks)) = Len(tasks)
    /\ pc \in {"pool", "applied"} =>
           /\ Len(queue) + Cardinality(running) + Len(results) = BatchLen
           /\ TaskCells(queue) \cup {Cell(t) : t \in running} \cup ResultCells = BatchCells
           /\ Cardinality(BatchCells) = BatchLen
           /\ BatchCells \cap {Cell(tasks[k]) : k \in 1..i} = {}
    /\ pc = "applied" => (Len(results) = BatchLen /\ ResultCells = BatchCells)

\* the second batch of a bottom-up run is applied, with a result for each
\* of its two tasks
C34_Witness ==
    /\ pc = "applied"
    /\ bottom_up
    /\ i > 0
    /\ Len(results) = MaxBatch
    /\ Cardinality(ResultCells) = MaxBatch

\* every cell of the dataset file, the entity-name column included
AllDiskCells == {<<r, c>> : r \in 2..(Len(diskData) + 1), c \in 0..(Len(diskKeys) - 1)}
\* the cells whose value in the dataset file changes in this step
ChangedCells == {c \in AllDiskCells : DiskCell(c)' # DiskCell(c)}

\* C35: whenever the run writes the dataset file, the header and the number
\* of rows stay as they are, every cell that was non-empty in the file keeps
\* its value (entity names included), and each changed cell is a cell of the
\* task list; the tasks are cells that were empty when the run loaded the
\* file.
C35_OnlyTaskCellsChange ==
    /\ [][diskData' # diskData =>
             /\ diskKeys' = diskKeys
             /\ Len(diskData') = Len(diskData)
             /\ \A r \in 1..Len(diskData) : DOMAIN diskData'[r] = DOMAIN diskData[r]
             /\ \A c \in AllDiskCells : Truthy(DiskCell(c)) => DiskCell(c)' = DiskCell(c)
             /\ ChangedCells \subseteq TaskCells(tasks)]_vars
    /\ [](pc = "loop" /\ i = 0 => \A c \in TaskCells(tasks) : ~Truthy(DiskCell(c)))
    /\ [][(pc \in {"loop", "pool", "applied"} /\ pc' \in {"loop", "pool", "applied"})
              => (tasks' = tasks)]_vars

\* a batch was saved on a dataset that had a filled section cell: the file
\* holds a generated text and the filled cell still has its first value
C35_Witness ==
    /\ pc = "loop"
    /\ i > 0
    /\ \E c \in EngineCells : DiskCell(c) = NewText
    /\ \E c \in EngineCells : DiskCell(c) = Filled
    /\ \A r \in 2..(NRows + 1) : DiskCell(<<r, 0>>) = Filled

(***************************************************************************)
(* A forward run and a reverse run from the same files.  The forward run   *)
(* is made first; when it is done its files are kept aside, the files of   *)
(* the start are put back and the reverse run is made.  The record `other` *)
(* holds what the comparison needs: the files of the start, the outcome    *)
(* the service has for each cell, and the files the forward run left.      *)
(***************************************************************************)
\* what a call can return for a cell: nothing or a text
PairOutcomes == {None, NewText}

PairInit ==
    /\ diskKeys = EngineKeys
    /\ diskData \in [1..NRows -> [{"Term", "S1", "S2"} -> {EmptyStr, Filled}]]
    /\ \A r \in 1..NRows : diskData[r]["Term"] = Filled
    /\ diskCp \in SetsUpTo({KeyOf(c[1], c[2]) : c \in EngineCells}, MaxInitMarks)
    /\ NoProcess
    /\ NoCall
    /\ NoHistory
    /\ cpFile = "dict" /\ dataExists = TRUE /\ backups = 0
    /\ \E svc \in [EngineCells -> PairOutcomes] :
           other = [pc |-> "first", data |-> diskData, cp |-> diskCp, svc |-> svc,
                    data1 |-> <<>>, cp1 |-> {}]

\* the call of task t returns what the service has for the cell of t
PairWorkerFinish(t) == WorkerFinish(t, other.svc[Cell(t)])

\* the forward run has exited: its files are kept aside and the files of the
\* start are put back for the reverse run
Again ==
    /\ pc = "done"
    /\ other.pc = "first"
    /\ Forget
    /\ other' = [other EXCEPT !.pc = "second", !.data1 = diskData, !.cp1 = diskCp]
    /\ diskData' = other.data
    /\ diskCp' = other.cp
    /\ UNCHANGED <<diskKeys, envVars, callVars, committed, lostBatch, lostMarks, dirty,
                   reconciled, failed, failedCells, prevClean>>

PairSteps ==
    \/ Reconcile
    \/ Discover
    \/ Dispatch
    \/ WorkerStart
    \/ \E t \in running : PairWorkerFinish(t)
    \/ ApplyBatch
    \/ SaveData
    \/ Finish

PairNext ==
    \/ \E b \in 1..MaxBatch, w \in 1..MaxWorkers :
           StartRun(FALSE, other.pc = "second", b, w)
    \/ PairSteps
    \/ Again

SpecPair == PairInit /\ [][PairNext]_vars

\* C36: with a service whose outcome is a function of the cell, the reverse
\* run ends with the dataset file and the checkpoint file the forward run
\* ended with from the same start, whatever the batch sizes and worker
\* counts of the two runs.
C36_SameEndBothWays ==
    (pc = "done" /\ other.pc = "second") =>
        /\ bottom_up
        /\ diskData = other.data1
        /\ diskCp = other.cp1

\* the reverse run is done after two batches of one task; a call failed, a
\* call gave a text, and the run left other files than it started from
C36_Witness ==
    /\ pc = "done"
    /\ other.pc = "second"
    /\ bottom_up
    /\ BATCH_SIZE = 1
    /\ Len(tasks) >= 2
    /\ \E k \in 1..Len(tasks) : other.svc[Cell(tasks[k])] = None
    /\ \E k \in 1..Len(tasks) : other.svc[Cell(tasks[k])] = NewText
    /\ diskData # other.data
    /\ diskCp # other.cp

(***************************************************************************)
(* Runs over datasets that hold whitespace-only cells.                     *)
(***************************************************************************)
BlankInit ==
    /\ diskKeys = EngineKeys
    /\ diskData \in [1..NRows -> [{"Term", "S1", "S2"} -> {EmptyStr, Blanks, Filled}]]
    /\ \A r \in 1..NRows : diskData[r]["Term"] = Filled
    /\ diskCp \in SetsUpTo({KeyOf(c[1], c[2]) : c \in EngineCells}, MaxInitMarks)
    /\ NoProcess
    /\ NoCall
    /\ NoHistory
    /\ GoodFiles

BlankNext ==
    \/ \E mode \in BOOLEAN, b \in 1..MaxBatch, w \in 1..MaxWorkers :
           StartRun(FALSE, mode, b, w)
    \/ RunSteps

SpecBlank == BlankInit /\ [][BlankNext]_vars

\* the cells discovery is meant to fill: rows with an entity name, section
\* columns with a label
FillCells ==
    {c \in AllDiskCells : c[2] >= 1 /\ At(diskKeys, c[2]) # ""
                             /\ Truthy(DiskCell(<<c[1], 0>>))}

\* C37: when a run in which no call failed is done, every cell of a row
\* with an entity name and a column with a label holds a value that is
\* neither empty nor whitespace-only.
C37_NoBlankLeft ==
    (pc = "done" /\ ~failed) => \A c \in FillCells : ~IsBlankVal(DiskCell(c))

(***************************************************************************)
(* reconcile_checkpoint applied twice in a row, in the JSON file and in    *)
(* the CSV twin, to a grid and a ledger of up to two keys handed to it     *)
(* while no checkpoint file exists: a save is then seen in the file.       *)
(***************************************************************************)
\* the test of the CSV twin: the column is checked against the row's length
csv_IsStale(rows, key) ==
    LET rc == ParseKey(key)
    IN  /\ rc # ValueError
        /\ LET data_row_idx == rc[1] - 2
               col_idx == rc[2]
           IN  \/ data_row_idx < 0 \/ data_row_idx >= Len(rows)
               \/ col_idx < 0 \/ col_idx >= Len(At(rows, data_row_idx))
               \/ IsBlankVal(At(At(rows, data_row_idx), col_idx))

csv_to_remove(rows, cp) == {key \in cp : csv_IsStale(rows, key)}

\* reconcile_checkpoint(rows, checkpoint) of the CSV twin
CsvReconcileStep(from, to) ==
    /\ pc = from
    /\ LET gone == csv_to_remove(records, checkpoint)
       IN  /\ checkpoint' = checkpoint \ gone
           /\ diskCp' = IF gone # {} THEN checkpoint' ELSE diskCp
           /\ cpFile' = IF gone # {} THEN "dict" ELSE cpFile
    /\ pc' = to
    /\ before' = checkpoint
    /\ dirty' = FALSE
    /\ reconciled' = TRUE
    /\ lostMarks' = {}
    /\ UNCHANGED <<diskKeys, diskData, dataExists, backups, argVars, headers, records,
                   tasks, i, queue, running, results, callVars, other, updated, committed, lostBatch,
                   failed, raised, failedCells, prevClean>>

\* the largest number of entries of a ledger reconciled twice
MaxTwiceLedger == 2
\* keys of cells of the grid, of cells below its last row, and a key that
\* does not parse
TwiceKeys == {KeyOf(r, c) : r \in 2..(NRows + 2), c \in 1..2} \cup {<<"2", "-">>}
TwiceRows == UNION {[1..n -> {EmptyStr, Blanks, Filled}] : n \in 0..3}

TwiceInit ==
    /\ diskKeys = EngineKeys
    /\ \/ /\ pc = "unit"
          /\ diskData \in [1..NRows -> [{"Term", "S1", "S2"} -> {EmptyStr, Blanks, Filled}]]
          /\ \A r \in 1..NRows : diskData[r]["Term"] = Filled
       \/ /\ pc = "csv"
          /\ diskData \in [1..NRows -> TwiceRows]
    /\ diskCp = {}
    /\ cpFile = "absent" /\ dataExists = TRUE /\ backups = 0 /\ other = NoOther
    /\ bottom_up = FALSE /\ BATCH_SIZE = 1 /\ MAX_WORKERS = 1
    /\ headers = diskKeys /\ records = diskData
    /\ checkpoint \in SetsUpTo(TwiceKeys, MaxTwiceLedger)
    /\ tasks = <<>> /\ i = 0 /\ queue = <<>> /\ running = {} /\ results = <<>>
    /\ updated = 0
    /\ before = {}
    /\ NoCall
    /\ NoHistory

TwiceNext ==
    \/ ReconcileStep("unit", "unit_reconciled")
    \/ ReconcileStep("unit_reconciled", "unit_twice")
    \/ CsvReconcileStep("csv", "csv_reconciled")
    \/ CsvReconcileStep("csv_reconciled", "csv_twice")

SpecTwice == TwiceInit /\ [][TwiceNext]_vars

\* the step is the second application of reconcile_checkpoint
SecondReconcile ==
    \/ pc = "unit_reconciled" /\ pc' = "unit_twice"
    \/ pc = "csv_reconciled" /\ pc' = "csv_twice"

\* C38: the second of two applications of reconcile to the same grid leaves
\* the ledger as the first application left it, removes no key and writes
\* no file.
C38_ReconcileIdempotent ==
    [][SecondReconcile =>
          /\ checkpoint' = checkpoint
          /\ UNCHANGED <<cpFile, diskCp, backups, diskKeys, diskData, records, headers>>]_vars

\* reconcile was applied twice to a ledger of which the first application
\* removed a key and kept a key
C38_Witness ==
    /\ pc \in {"unit_twice", "csv_twice"}
    /\ cpFile = "dict"
    /\ checkpoint # {}
    /\ checkpoint = diskCp
    /\ before = checkpoint

\* the same for a ledger of which the first application removed nothing, so
\* that no checkpoint file exists after the second
C38_WitnessNoFile ==
    /\ pc \in {"unit_twice", "csv_twice"}
    /\ cpFile = "absent"
    /\ Cardinality(checkpoint) = MaxTwiceLedger
====
